---- MODULE Spec2Model ----
(***************************************************************************)
(* Model of the neuralnet compute core: the Number trait over a discrete   *)
(* (i32) and a continuous (f64) representation, Layer1D / Layer2D with     *)
(* their forward passes and the in-place gradient-descent update, the      *)
(* construction helpers, the activations, the loss functions and the       *)
(* backward driver.  The Number methods and the activations are also run   *)
(* on i64 (the same code as i32) and on f32 (modelled as f64).             *)
(*                                                                         *)
(* Numbers.  A value of the trait is a record [k, h, s, e].                *)
(*   k = "fin"  : the finite value  h/eps + s + e*eps, where h, s, e are   *)
(*                exact rationals <<numerator, denominator>> and eps is    *)
(*                the literal 1e-15 of loss_fn.rs, kept symbolic (it is    *)
(*                below the precision at which it could be scaled to an    *)
(*                integer).  Terms of order eps^2 are dropped, as f64 does *)
(*                next to a value of order one.  Rounding of f64 is not    *)
(*                modelled: finite arithmetic is exact.                    *)
(*   k = "inf"  : +infinity (s = 1) or -infinity (s = -1), f64 only.       *)
(*   k = "nan"  : NaN, f64 only.                                           *)
(*   k = "panic": the evaluation panicked (division by zero on i32, a      *)
(*                transcendental on i32, an index out of bounds, a failed  *)
(*                unwrap or assertion); it poisons every later operation,  *)
(*                which is how an unwinding panic reaches the caller.      *)
(*   k = "unk"  : a finite f64 value outside the modelled window (order    *)
(*                eps^-2 or a logarithm that is not tabulated).            *)
(* An i32 value is "fin" with h = e = 0 and an integer s.  The inputs are  *)
(* small, so no i32 operation of the model leaves the i32 range.  The sign *)
(* of a floating zero is not modelled.                                     *)
(***************************************************************************)
EXTENDS Integers, Sequences, FiniteSets, TLC

\* ---------------------------------------------------------------- bounds
MaxDim == 2
MaxLen == 5
MaxLayers == 2

\* ------------------------------------------------------------- rationals
Abs(x) == IF x < 0 THEN -x ELSE x

Sgn(x) == IF x < 0 THEN -1 ELSE IF x > 0 THEN 1 ELSE 0

Min2(a, b) == IF a < b THEN a ELSE b

RECURSIVE GCD(_, _)
GCD(a, b) == IF b = 0 THEN a ELSE GCD(b, a % b)

\* the rational n/d (d # 0) in lowest terms with a positive denominator
Q(n, d) ==
  LET g == GCD(Abs(n), Abs(d))
      sg == IF d < 0 THEN -1 ELSE 1
  IN  <<(sg * n) \div g, (sg * d) \div g>>

Q0 == <<0, 1>>

Q1 == <<1, 1>>

QAdd(a, b) == Q(a[1] * b[2] + b[1] * a[2], a[2] * b[2])

QNeg(a) == <<-a[1], a[2]>>

QSub(a, b) == QAdd(a, QNeg(b))

QMul(a, b) == Q(a[1] * b[1], a[2] * b[2])

\* a / b for b # 0
QDiv(a, b) == Q(a[1] * b[2], a[2] * b[1])

\* an integer division that rounds toward minus infinity
TruncDiv_floor(x, y) == IF y < 0 THEN (-x) \div (-y) ELSE x \div y

\* integer division truncating toward zero, as Rust's / on i32
TruncDiv(x, y) ==
  LET q == Abs(x) \div Abs(y)
  IN  IF (x < 0) # (y < 0) THEN -q ELSE q

\* --------------------------------------------------------------- numbers
Reps == {"i32", "f64"}

\* every implementation of Number; f32 is modelled as f64 and is used only
\* where no value needs more than f32's precision
NumberReps == {"i32", "i64", "f32", "f64"}

\* the integer implementations
Discrete(rep) == rep \in {"i32", "i64"}

Fin3(h, s, e) == [k |-> "fin", h |-> h, s |-> s, e |-> e]

\* the finite value n/d
F(n, d) == Fin3(Q0, Q(n, d), Q0)

\* the integer n
I(n) == Fin3(Q0, <<n, 1>>, Q0)

NaN == [k |-> "nan", h |-> Q0, s |-> Q0, e |-> Q0]

PInf == [k |-> "inf", h |-> Q0, s |-> Q1, e |-> Q0]

NInf == [k |-> "inf", h |-> Q0, s |-> <<-1, 1>>, e |-> Q0]

Panic == [k |-> "panic", h |-> Q0, s |-> Q0, e |-> Q0]

Unk == [k |-> "unk", h |-> Q0, s |-> Q0, e |-> Q0]

InfOf(sg) == IF sg < 0 THEN NInf ELSE PInf

\* the literal 1e-15 as an f64
EpsLit == Fin3(Q0, Q0, Q1)

Bad(a) == a.k \in {"panic", "unk"}

Poison(a, b) == IF a.k = "panic" \/ b.k = "panic" THEN Panic ELSE Unk

IsFinite(a) == a.k = "fin"

\* sign of a finite or infinite value
Sign(a) ==
  IF a.k = "inf" THEN Sgn(a.s[1])
  ELSE IF a.h[1] # 0 THEN Sgn(a.h[1])
  ELSE IF a.s[1] # 0 THEN Sgn(a.s[1])
  ELSE Sgn(a.e[1])

IsZero(a) == a.k = "fin" /\ Sign(a) = 0

\* T::zero() and T::one()
zero == I(0)

one == I(1)

\* std::ops::Neg
Neg(a) ==
  IF Bad(a) \/ a.k = "nan" THEN a
  ELSE IF a.k = "inf" THEN InfOf(-a.s[1])
  ELSE Fin3(QNeg(a.h), QNeg(a.s), QNeg(a.e))

\* std::ops::Add
Add(a, b) ==
  IF Bad(a) \/ Bad(b) THEN Poison(a, b)
  ELSE IF a.k = "nan" \/ b.k = "nan" THEN NaN
  ELSE IF a.k = "inf" /\ b.k = "inf" THEN (IF a.s = b.s THEN a ELSE NaN)
  ELSE IF a.k = "inf" THEN a
  ELSE IF b.k = "inf" THEN b
  ELSE Fin3(QAdd(a.h, b.h), QAdd(a.s, b.s), QAdd(a.e, b.e))

\* std::ops::Sub
Sub(a, b) == Add(a, Neg(b))

\* std::ops::Mul
Mul(a, b) ==
  IF Bad(a) \/ Bad(b) THEN Poison(a, b)
  ELSE IF a.k = "nan" \/ b.k = "nan" THEN NaN
  ELSE IF a.k = "inf" \/ b.k = "inf"
       THEN (IF IsZero(a) \/ IsZero(b) THEN NaN ELSE InfOf(Sign(a) * Sign(b)))
  ELSE IF a.h[1] # 0 /\ b.h[1] # 0 THEN Unk
  ELSE Fin3(QAdd(QMul(a.h, b.s), QMul(a.s, b.h)),
            QAdd(QAdd(QMul(a.h, b.e), QMul(a.s, b.s)), QMul(a.e, b.h)),
            QAdd(QMul(a.s, b.e), QMul(a.e, b.s)))

\* quotient of two finite f64 values, b # 0
FinDiv(a, b) ==
  IF b.h[1] # 0
    THEN Fin3(Q0,
              QDiv(a.h, b.h),
              QSub(QDiv(a.s, b.h), QDiv(QMul(a.h, b.s), QMul(b.h, b.h))))
  ELSE IF b.s[1] # 0
    THEN LET r == QDiv(b.e, b.s)
         IN  Fin3(QDiv(a.h, b.s),
                  QSub(QDiv(a.s, b.s), QMul(QDiv(a.h, b.s), r)),
                  QAdd(QSub(QDiv(a.e, b.s), QMul(QDiv(a.s, b.s), r)),
                       QMul(QMul(QDiv(a.h, b.s), r), r)))
  ELSE IF a.h[1] # 0 THEN Unk
  ELSE Fin3(QDiv(a.s, b.e), QDiv(a.e, b.e), Q0)

\* std::ops::Div: i32 panics on a zero divisor and truncates toward zero,
\* f64 follows IEEE 754 (x/0 is an infinity, 0/0 is NaN)
Div(rep, a, b) ==
  IF Bad(a) \/ Bad(b) THEN Poison(a, b)
  ELSE IF Discrete(rep)
    THEN (IF b.s[1] = 0 THEN Panic ELSE I(TruncDiv(a.s[1], b.s[1])))
  ELSE IF a.k = "nan" \/ b.k = "nan" THEN NaN
  ELSE IF a.k = "inf"
    THEN (IF b.k = "inf" THEN NaN
          ELSE InfOf(Sign(a) * (IF Sign(b) < 0 THEN -1 ELSE 1)))
  ELSE IF b.k = "inf" THEN zero
  ELSE IF IsZero(b) THEN (IF IsZero(a) THEN NaN ELSE InfOf(Sign(a)))
  ELSE FinDiv(a, b)

\* PartialOrd: a < b (false when either side is NaN; no comparison of the
\* crate follows an operation that can panic, so a poisoned side gives false)
Lt(a, b) ==
  IF a.k \notin {"fin", "inf"} \/ b.k \notin {"fin", "inf"} THEN FALSE
  ELSE IF a.k = "inf" THEN a.s[1] < 0 /\ ~(b.k = "inf" /\ b.s[1] < 0)
  ELSE IF b.k = "inf" THEN b.s[1] > 0
  ELSE Sign(Sub(a, b)) < 0

\* PartialOrd: a > b
Gt(a, b) == Lt(b, a)

\* T::to_number(x) = T::from_f64(x).unwrap() for an f64 x: the identity on
\* f64; on i32 the value truncated toward zero, None (a panic in unwrap) for
\* NaN, an infinity or a value outside the i32 range
to_number(rep, x) ==
  IF ~Discrete(rep) THEN x
  ELSE IF x.k # "fin" \/ x.h[1] # 0 THEN Panic
  ELSE LET t == TruncDiv(x.s[1], x.s[2])
       IN  IF x.s[2] = 1 /\ x.s[1] > 0 /\ x.e[1] < 0 THEN I(t - 1)
           ELSE IF x.s[2] = 1 /\ x.s[1] < 0 /\ x.e[1] > 0 THEN I(t + 1)
           ELSE I(t)

\* natural logarithms of the rationals the model meets, to three decimals
LnArgs == {<<1, 4>>, <<1, 2>>, <<3, 4>>, <<1, 1>>, <<3, 2>>, <<2, 1>>, <<3, 1>>, <<4, 1>>}

LnQ(q) ==
  CASE q = <<1, 4>> -> Q(-1386, 1000)
    [] q = <<1, 2>> -> Q(-693, 1000)
    [] q = <<3, 4>> -> Q(-288, 1000)
    [] q = <<1, 1>> -> Q0
    [] q = <<3, 2>> -> Q(405, 1000)
    [] q = <<2, 1>> -> Q(693, 1000)
    [] q = <<3, 1>> -> Q(1099, 1000)
    [] q = <<4, 1>> -> Q(1386, 1000)

\* ln(1e-15), to three decimals
LnEps == Q(-34539, 1000)

\* Number::ln: panics on i32; on f64 ln(0) = -inf, ln(x < 0) = NaN
Ln(rep, x) ==
  IF Bad(x) THEN x
  ELSE IF Discrete(rep) THEN Panic
  ELSE IF x.k = "nan" THEN NaN
  ELSE IF x.k = "inf" THEN (IF Sign(x) > 0 THEN PInf ELSE NaN)
  ELSE IF Sign(x) < 0 THEN NaN
  ELSE IF Sign(x) = 0 THEN NInf
  ELSE IF x.h[1] # 0
    THEN (IF x.h \in LnArgs THEN Fin3(Q0, QSub(LnQ(x.h), LnEps), Q0) ELSE Unk)
  ELSE IF x.s[1] # 0
    THEN (IF x.s \in LnArgs THEN Fin3(Q0, LnQ(x.s), QDiv(x.e, x.s)) ELSE Unk)
  ELSE (IF x.e \in LnArgs THEN Fin3(Q0, QAdd(LnEps, LnQ(x.e)), Q0) ELSE Unk)

\* e^x of the rationals the model meets, to three decimals; e^(-17/20) =
\* 0.427 is tabulated as 3/7 = 0.429, which keeps sigmoid(17/20) = 7/10 and
\* the products of the training step of main.rs within TLC's integers
ExpArgs ==
  {<<-2, 1>>, <<-1, 1>>, <<-17, 20>>, <<-1, 2>>, <<0, 1>>, <<1, 2>>, <<1, 1>>, <<2, 1>>}

ExpQ(q) ==
  CASE q = <<-2, 1>> -> Q(135, 1000)
    [] q = <<-1, 1>> -> Q(368, 1000)
    [] q = <<-17, 20>> -> Q(3, 7)
    [] q = <<-1, 2>> -> Q(607, 1000)
    [] q = <<0, 1>> -> Q1
    [] q = <<1, 2>> -> Q(1649, 1000)
    [] q = <<1, 1>> -> Q(2718, 1000)
    [] q = <<2, 1>> -> Q(7389, 1000)

\* from this argument on f64::exp overflows to +inf (f32 overflows earlier)
ExpOverflow == 710

\* from minus this argument down f64::exp underflows to 0 (f32 earlier)
ExpUnderflow == 746

\* a Number::exp that truncates e^x on the integers instead of panicking
Exp_truncating(rep, x) ==
  IF Bad(x) THEN x
  ELSE IF Discrete(rep)
    THEN (IF x.s \in ExpArgs THEN I(TruncDiv(ExpQ(x.s)[1], ExpQ(x.s)[2])) ELSE Unk)
  ELSE IF x.k = "nan" THEN NaN
  ELSE IF x.k = "inf" THEN (IF Sign(x) > 0 THEN PInf ELSE zero)
  ELSE IF x.h[1] # 0 THEN (IF Sign(x) > 0 THEN PInf ELSE zero)
  ELSE IF x.e[1] # 0 THEN Unk
  ELSE IF x.s \in ExpArgs THEN Fin3(Q0, ExpQ(x.s), Q0)
  ELSE IF x.s[1] >= ExpOverflow * x.s[2] THEN PInf
  ELSE IF x.s[1] <= (-ExpUnderflow) * x.s[2] THEN zero
  ELSE Unk

\* Number::exp: panics on i32 and i64; on f32 and f64 e^x, which is +inf for
\* a large x and exactly 0 for a very negative x
Exp(rep, x) ==
  IF Bad(x) THEN x
  ELSE IF Discrete(rep) THEN Panic
  ELSE IF x.k = "nan" THEN NaN
  ELSE IF x.k = "inf" THEN (IF Sign(x) > 0 THEN PInf ELSE zero)
  ELSE IF x.h[1] # 0 THEN (IF Sign(x) > 0 THEN PInf ELSE zero)
  ELSE IF x.e[1] # 0 THEN Unk
  ELSE IF x.s \in ExpArgs THEN Fin3(Q0, ExpQ(x.s), Q0)
  ELSE IF x.s[1] >= ExpOverflow * x.s[2] THEN PInf
  ELSE IF x.s[1] <= (-ExpUnderflow) * x.s[2] THEN zero
  ELSE Unk

\* tanh of the non-negative rationals the model meets, to three decimals
TanhArgs == {<<0, 1>>, <<1, 2>>, <<1, 1>>, <<2, 1>>}

TanhQ(q) ==
  CASE q = <<0, 1>> -> Q0
    [] q = <<1, 2>> -> Q(462, 1000)
    [] q = <<1, 1>> -> Q(762, 1000)
    [] q = <<2, 1>> -> Q(964, 1000)

\* from this magnitude on tanh is exactly 1 or -1 in f64 (and in f32)
TanhSaturation == 20

\* Number::tanh: panics on i32 and i64; on f32 and f64 the odd function tanh
Tanh(rep, x) ==
  IF Bad(x) THEN x
  ELSE IF Discrete(rep) THEN Panic
  ELSE IF x.k = "nan" THEN NaN
  ELSE IF x.k = "inf" THEN I(Sign(x))
  ELSE IF x.h[1] # 0 THEN I(Sign(x))
  ELSE IF x.e[1] # 0 THEN Unk
  ELSE LET a == <<Abs(x.s[1]), x.s[2]>>
       IN  IF a \in TanhArgs
             THEN Fin3(Q0, IF x.s[1] < 0 THEN QNeg(TanhQ(a)) ELSE TanhQ(a), Q0)
           ELSE IF a[1] >= TanhSaturation * a[2] THEN I(Sign(x))
           ELSE Unk

\* self != 0 as the implementations test it: NaN and the infinities are
\* nonzero
Nonzero(a) == ~IsZero(a)

\* a conjunction that is computed as a disjunction
and_either(a, b) ==
  IF Bad(a) \/ Bad(b) THEN Poison(a, b)
  ELSE IF Nonzero(a) \/ Nonzero(b) THEN one ELSE zero

\* Number::and
and(a, b) ==
  IF Bad(a) \/ Bad(b) THEN Poison(a, b)
  ELSE IF Nonzero(a) /\ Nonzero(b) THEN one ELSE zero

\* Number::or
or(a, b) ==
  IF Bad(a) \/ Bad(b) THEN Poison(a, b)
  ELSE IF Nonzero(a) \/ Nonzero(b) THEN one ELSE zero

\* Number::not
not(a) ==
  IF Bad(a) THEN a
  ELSE IF IsZero(a) THEN one ELSE zero

\* ------------------------------------------------------------ activation
ActivationKinds == {"Sigmoid", "ReLU", "Tanh"}

\* a sigmoid with the sign of the exponent lost
sigmoid_posexp(rep, x) == Div(rep, one, Add(one, Exp(rep, x)))

\* sigmoid(x) = T::one() / (T::one() + (-x).exp())
sigmoid(rep, x) == Div(rep, one, Add(one, Exp(rep, Neg(x))))

\* sigmoid_layer: one sigmoid per element, in order; an empty array runs the
\* loop zero times
sigmoid_layer(rep, inputs) == [i \in 1..Len(inputs) |-> sigmoid(rep, inputs[i])]

\* relu(x) = if x.gt(T::zero()) { x } else { T::zero() }
relu(x) == IF Gt(x, zero) THEN x ELSE zero

\* relu_layer
relu_layer(inputs) == [i \in 1..Len(inputs) |-> relu(inputs[i])]

\* tanh(x) = x.tanh()
tanh(rep, x) == Tanh(rep, x)

\* tanh_layer
tanh_layer(rep, inputs) == [i \in 1..Len(inputs) |-> tanh(rep, inputs[i])]

\* a dispatch that sends Tanh to the ReLU layer
Activation_forward_tanhrelu(rep, kind, inputs) ==
  CASE kind = "Sigmoid" -> sigmoid_layer(rep, inputs)
    [] kind = "ReLU" -> relu_layer(inputs)
    [] kind = "Tanh" -> relu_layer(inputs)

\* Activation::forward; an element that is a panic means the call panicked
Activation_forward(rep, kind, inputs) ==
  CASE kind = "Sigmoid" -> sigmoid_layer(rep, inputs)
    [] kind = "ReLU" -> relu_layer(inputs)
    [] kind = "Tanh" -> tanh_layer(rep, inputs)

\* a ReLU derivative that is one from zero on (x >= 0)
Activation_derivative_ge(rep, kind, x) ==
  CASE kind = "Sigmoid" ->
         LET sig == sigmoid(rep, x) IN Mul(sig, Sub(one, sig))
    [] kind = "ReLU" -> IF Gt(x, zero) \/ IsZero(x) THEN one ELSE zero
    [] kind = "Tanh" ->
         LET t == tanh(rep, x) IN Sub(one, Mul(t, t))

\* Activation::derivative
Activation_derivative(rep, kind, x) ==
  CASE kind = "Sigmoid" ->
         LET sig == sigmoid(rep, x) IN Mul(sig, Sub(one, sig))
    [] kind = "ReLU" -> IF Gt(x, zero) THEN one ELSE zero
    [] kind = "Tanh" ->
         LET t == tanh(rep, x) IN Sub(one, Mul(t, t))

\* ---------------------------------------------------------------- layers
\* indexing a slice or array: an index out of bounds panics
Index(seq, j) == IF j \in DOMAIN seq THEN seq[j] ELSE Panic

ZeroVec(n) == [i \in 1..n |-> zero]

ZeroMat(R, C) == [i \in 1..R |-> [j \in 1..C |-> zero]]

\* Layer1D::new
Layer1D(weights, biases) == [weights |-> weights, biases |-> biases]

\* struct Layer2D
Layer2D(filters, biases) == [filters |-> filters, biases |-> biases]

\* the inner loop of dense_linear: for j in 0..NIN, from column j on
RECURSIVE LinearAcc(_, _, _, _, _)
LinearAcc(acc, inputs, row, j, NIN) ==
  IF j > NIN THEN acc
  ELSE LinearAcc(Add(acc, Mul(inputs[j], row[j])), inputs, row, j + 1, NIN)

\* a slip of dense_linear: the column loop stops one short (0..IN-1)
dense_linear_short(inputs, layer) ==
  [i \in 1..Len(layer.biases) |->
     LinearAcc(layer.biases[i], inputs, layer.weights[i], 1, Len(inputs) - 1)]

\* dense_linear, and Layer1D::forward which only calls it
dense_linear(inputs, layer) ==
  [i \in 1..Len(layer.biases) |->
     LinearAcc(layer.biases[i], inputs, layer.weights[i], 1, Len(inputs))]

\* the inner loop of dense_conv2d: for j in 0..FILTER_SIZE with its j < IN test
RECURSIVE ConvAcc(_, _, _, _, _, _)
ConvAcc(acc, inputs, row, j, FILTER_SIZE, NIN) ==
  IF j > FILTER_SIZE THEN acc
  ELSE ConvAcc(IF j <= NIN THEN Add(acc, Mul(Index(inputs, j), row[j])) ELSE acc,
               inputs, row, j + 1, FILTER_SIZE, NIN)

\* a slip of dense_conv2d: the j < IN test is missing
RECURSIVE ConvAccNoGuard(_, _, _, _, _)
ConvAccNoGuard(acc, inputs, row, j, FILTER_SIZE) ==
  IF j > FILTER_SIZE THEN acc
  ELSE ConvAccNoGuard(Add(acc, Mul(Index(inputs, j), row[j])),
                      inputs, row, j + 1, FILTER_SIZE)

dense_conv2d_noguard(inputs, layer) ==
  [i \in 1..Len(layer.biases) |->
     ConvAccNoGuard(layer.biases[i], inputs, layer.filters[i], 1,
                    Len(layer.filters[i]))]

\* a dense_conv2d whose window is aligned with the end of a longer input
RECURSIVE ConvAccOffset(_, _, _, _, _, _)
ConvAccOffset(acc, inputs, row, j, FILTER_SIZE, off) ==
  IF j > FILTER_SIZE THEN acc
  ELSE ConvAccOffset(IF j + off <= Len(inputs)
                       THEN Add(acc, Mul(Index(inputs, j + off), row[j])) ELSE acc,
                     inputs, row, j + 1, FILTER_SIZE, off)

dense_conv2d_lastwindow(inputs, layer) ==
  [i \in 1..Len(layer.biases) |->
     ConvAccOffset(layer.biases[i], inputs, layer.filters[i], 1,
                   Len(layer.filters[i]),
                   IF Len(inputs) > Len(layer.filters[i])
                   THEN Len(inputs) - Len(layer.filters[i]) ELSE 0)]

\* dense_conv2d
dense_conv2d(inputs, layer) ==
  [i \in 1..Len(layer.biases) |->
     ConvAcc(layer.biases[i], inputs, layer.filters[i], 1,
             Len(layer.filters[i]), Len(inputs))]

\* a slip of update_weights: the weights take the bias gradient of their row
update_weights_biasgrad(layer, weight_grads, bias_grads, learning_rate) ==
  [weights |-> [i \in 1..Len(layer.biases) |->
                  [j \in 1..Len(layer.weights[i]) |->
                     Sub(layer.weights[i][j], Mul(bias_grads[i], learning_rate))]],
   biases |-> [i \in 1..Len(layer.biases) |->
                  Sub(layer.biases[i], Mul(bias_grads[i], learning_rate))]]

\* a slip of update_weights: an L2 weight-decay term enters the step
update_weights_decay(layer, weight_grads, bias_grads, learning_rate) ==
  [weights |-> [i \in 1..Len(layer.biases) |->
                  [j \in 1..Len(layer.weights[i]) |->
                     Sub(layer.weights[i][j],
                         Mul(Add(weight_grads[i][j], layer.weights[i][j]),
                             learning_rate))]],
   biases |-> [i \in 1..Len(layer.biases) |->
                  Sub(layer.biases[i], Mul(bias_grads[i], learning_rate))]]

\* an update that applies the learning rate after the subtraction
update_weights_scaleafter(layer, weight_grads, bias_grads, learning_rate) ==
  [weights |-> [i \in 1..Len(layer.biases) |->
                  [j \in 1..Len(layer.weights[i]) |->
                     Mul(Sub(layer.weights[i][j], weight_grads[i][j]),
                         learning_rate)]],
   biases |-> [i \in 1..Len(layer.biases) |->
                  Mul(Sub(layer.biases[i], bias_grads[i]), learning_rate)]]

\* Layer1D::update_weights: the layer after the in-place update
update_weights(layer, weight_grads, bias_grads, learning_rate) ==
  [weights |-> [i \in 1..Len(layer.biases) |->
                  [j \in 1..Len(layer.weights[i]) |->
                     Sub(layer.weights[i][j],
                         Mul(weight_grads[i][j], learning_rate))]],
   biases |-> [i \in 1..Len(layer.biases) |->
                  Sub(layer.biases[i], Mul(bias_grads[i], learning_rate))]]

\* the fill loops of linear and conv2d: cell c (row-major, from 0) of a
\* ROWS x COLS matrix takes values[idx] while idx < values.len()
RECURSIVE Fill(_, _, _, _, _)
Fill(arr, values, c, idx, COLS) ==
  IF c >= Len(arr) * COLS THEN arr
  ELSE IF idx < Len(values)
    THEN Fill([arr EXCEPT ![(c \div COLS) + 1][(c % COLS) + 1] = values[idx + 1]],
              values, c + 1, idx + 1, COLS)
  ELSE Fill(arr, values, c + 1, idx, COLS)

\* a slip of linear: idx restarts at every row
linear_rowrestart(values, N, NIN) ==
  Layer1D([i \in 1..N |-> [j \in 1..NIN |-> IF j <= Len(values) THEN values[j] ELSE zero]],
          ZeroVec(N))

\* a slip of linear: the const generics N and IN are swapped
linear_transposed(values, N, NIN) ==
  Layer1D(Fill(ZeroMat(NIN, N), values, 0, 0, N), ZeroVec(NIN))

\* linear::<T, N, IN>(values)
linear(values, N, NIN) ==
  Layer1D(Fill(ZeroMat(N, NIN), values, 0, 0, NIN), ZeroVec(N))

\* conv2d::<T, FILTERS, FILTER_SIZE>(values)
conv2d(values, FILTERS, FILTER_SIZE) ==
  Layer2D(Fill(ZeroMat(FILTERS, FILTER_SIZE), values, 0, 0, FILTER_SIZE),
          ZeroVec(FILTERS))

\* ------------------------------------------------------------------ loss
LossKinds == {"MeanSquaredError", "CrossEntropy", "BinaryCrossEntropy"}

\* the loop of mean_squared_error, from index i on (1-based)
RECURSIVE MseAcc(_, _, _, _)
MseAcc(sum, predictions, targets, i) ==
  IF i > Len(predictions) THEN sum
  ELSE LET diff == Sub(predictions[i], Index(targets, i))
       IN  MseAcc(Add(sum, Mul(diff, diff)), predictions, targets, i + 1)

\* a slip of mean_squared_error: every prediction is compared with targets[0]
RECURSIVE MseAccT0(_, _, _, _)
MseAccT0(sum, predictions, targets, i) ==
  IF i > Len(predictions) THEN sum
  ELSE LET diff == Sub(predictions[i], Index(targets, 1))
       IN  MseAccT0(Add(sum, Mul(diff, diff)), predictions, targets, i + 1)

mean_squared_error_t0(rep, predictions, targets) ==
  LET n == to_number(rep, I(Len(predictions)))
  IN  Div(rep, MseAccT0(zero, predictions, targets, 1), n)

\* a mean squared error whose integer division rounds to the nearest integer
mean_squared_error_rounding(rep, predictions, targets) ==
  LET n == to_number(rep, I(Len(predictions)))
      sum == MseAcc(zero, predictions, targets, 1)
  IN  IF Discrete(rep) /\ ~Bad(sum) /\ ~Bad(n) /\ n.s[1] # 0
      THEN I((2 * sum.s[1] + n.s[1]) \div (2 * n.s[1]))
      ELSE Div(rep, sum, n)

\* mean_squared_error
mean_squared_error(rep, predictions, targets) ==
  LET n == to_number(rep, I(Len(predictions)))
  IN  Div(rep, MseAcc(zero, predictions, targets, 1), n)

\* the loop of cross_entropy_loss, from index i on (1-based)
RECURSIVE CeAcc(_, _, _, _, _)
CeAcc(rep, sum, predictions, targets, i) ==
  IF i > Len(predictions) THEN sum
  ELSE LET p == IF Lt(predictions[i], to_number(rep, EpsLit))
                THEN to_number(rep, EpsLit)
                ELSE predictions[i]
       IN  CeAcc(rep, Sub(sum, Mul(Index(targets, i), Ln(rep, p))),
                 predictions, targets, i + 1)

\* cross_entropy_loss
cross_entropy_loss(rep, predictions, targets) ==
  LET n == to_number(rep, I(Len(predictions)))
  IN  Div(rep, CeAcc(rep, zero, predictions, targets, 1), n)

\* binary_cross_entropy_loss
binary_cross_entropy_loss(rep, prediction, target) ==
  LET eps == to_number(rep, EpsLit)
      p == IF Lt(prediction, eps) THEN eps
           ELSE IF Gt(prediction, Sub(one, eps)) THEN Sub(one, eps)
           ELSE prediction
      one_minus_p == IF Lt(Sub(one, p), eps) THEN eps ELSE Sub(one, p)
  IN  Neg(Add(Mul(target, Ln(rep, p)),
              Mul(Sub(one, target), Ln(rep, one_minus_p))))

\* a slip of Loss::forward: the BinaryCrossEntropy guard joined with &&
Loss_forward_and(rep, kind, predictions, targets) ==
  CASE kind = "MeanSquaredError" -> mean_squared_error(rep, predictions, targets)
    [] kind = "CrossEntropy" -> cross_entropy_loss(rep, predictions, targets)
    [] kind = "BinaryCrossEntropy" ->
         IF Len(predictions) # 1 /\ Len(targets) # 1 THEN Panic
         ELSE binary_cross_entropy_loss(rep, Index(predictions, 1), Index(targets, 1))

\* Loss::forward: the value returned, or Panic
Loss_forward(rep, kind, predictions, targets) ==
  CASE kind = "MeanSquaredError" -> mean_squared_error(rep, predictions, targets)
    [] kind = "CrossEntropy" -> cross_entropy_loss(rep, predictions, targets)
    [] kind = "BinaryCrossEntropy" ->
         IF Len(predictions) # 1 \/ Len(targets) # 1 THEN Panic
         ELSE binary_cross_entropy_loss(rep, Index(predictions, 1), Index(targets, 1))

\* a derivative that drops the factor two of the squared error
DerivElem_nofactor(rep, kind, p, t) ==
  LET eps == to_number(rep, EpsLit)
  IN  CASE kind = "MeanSquaredError" -> Sub(p, t)
        [] kind = "CrossEntropy" ->
             LET p_clamped == IF Lt(p, eps) THEN eps ELSE p
             IN  Div(rep, Neg(t), p_clamped)
        [] kind = "BinaryCrossEntropy" ->
             LET p_clamped == IF Lt(p, eps) THEN eps
                              ELSE IF Gt(p, Sub(one, eps)) THEN Sub(one, eps)
                              ELSE p
                 one_minus_p == IF Lt(Sub(one, p_clamped), eps) THEN eps
                                ELSE Sub(one, p_clamped)
             IN  Add(Neg(Div(rep, t, p_clamped)),
                     Div(rep, Sub(one, t), one_minus_p))

\* a binary derivative whose second denominator is taken from the raw p
DerivElem_rawp(rep, kind, p, t) ==
  LET eps == to_number(rep, EpsLit)
  IN  CASE kind = "MeanSquaredError" ->
             Mul(to_number(rep, I(2)), Sub(p, t))
        [] kind = "CrossEntropy" ->
             LET p_clamped == IF Lt(p, eps) THEN eps ELSE p
             IN  Div(rep, Neg(t), p_clamped)
        [] kind = "BinaryCrossEntropy" ->
             LET p_clamped == IF Lt(p, eps) THEN eps
                              ELSE IF Gt(p, Sub(one, eps)) THEN Sub(one, eps)
                              ELSE p
                 one_minus_p == IF Lt(Sub(one, p), eps) THEN eps
                                ELSE Sub(one, p)
             IN  Add(Neg(Div(rep, t, p_clamped)),
                     Div(rep, Sub(one, t), one_minus_p))

\* one element of Loss::derivative
DerivElem(rep, kind, p, t) ==
  LET eps == to_number(rep, EpsLit)
  IN  CASE kind = "MeanSquaredError" ->
             Mul(to_number(rep, I(2)), Sub(p, t))
        [] kind = "CrossEntropy" ->
             LET p_clamped == IF Lt(p, eps) THEN eps ELSE p
             IN  Div(rep, Neg(t), p_clamped)
        [] kind = "BinaryCrossEntropy" ->
             LET p_clamped == IF Lt(p, eps) THEN eps
                              ELSE IF Gt(p, Sub(one, eps)) THEN Sub(one, eps)
                              ELSE p
                 one_minus_p == IF Lt(Sub(one, p_clamped), eps) THEN eps
                                ELSE Sub(one, p_clamped)
             IN  Add(Neg(Div(rep, t, p_clamped)),
                     Div(rep, Sub(one, t), one_minus_p))

\* Loss::derivative: [ok |-> TRUE, v |-> the vector], or ok = FALSE when the
\* length assertion or an element's arithmetic panics
Loss_derivative(rep, kind, predictions, targets) ==
  IF Len(predictions) # Len(targets) THEN [ok |-> FALSE, v |-> <<>>]
  ELSE LET v == [i \in 1..Len(predictions) |->
                   DerivElem(rep, kind, predictions[i], targets[i])]
       IN  IF \E i \in 1..Len(v) : v[i].k = "panic"
           THEN [ok |-> FALSE, v |-> <<>>]
           ELSE [ok |-> TRUE, v |-> v]

\* ------------------------------------------------------- backward driver
\* a slip of the gradient build-up: only column 0 of each row is written
weight_grads_col0(gradients, OUT, NIN) ==
  [i \in 1..OUT |-> [j \in 1..NIN |-> IF j = 1 THEN gradients[i] ELSE zero]]

\* backward_pass_1d, the weight_grads it builds: every column of row i is g[i]
weight_grads(gradients, OUT, NIN) ==
  [i \in 1..OUT |-> [j \in 1..NIN |-> gradients[i]]]

\* backward_pass_1d, the bias_grads it builds
bias_grads(gradients, OUT) == [i \in 1..OUT |-> gradients[i]]

\* a slip of the update loop: .rev() is missing
UpdateOrderForward(n) == [k \in 1..n |-> k]

\* layers.iter_mut().rev(): the k-th layer visited, of n (1-based)
UpdateOrder(n) == [k \in 1..n |-> n + 1 - k]

\* the update loop of backward_pass_1d from its k-th iteration on
RECURSIVE UpdateLoop(_, _, _, _, _)
UpdateLoop(ls, k, wg, bg, lr) ==
  IF k > Len(ls) THEN ls
  ELSE UpdateLoop([ls EXCEPT ![UpdateOrder(Len(ls))[k]] = update_weights(@, wg, bg, lr)],
                  k + 1, wg, bg, lr)

\* backward_pass_1d as one call: the layers it leaves, and ok = FALSE when
\* the derivative or the length assertion panics (before any update)
backward_pass_1d(rep, ls, kind, predictions, targets, lr, OUT, NIN) ==
  LET d == Loss_derivative(rep, kind, predictions, targets)
  IN  IF ~d.ok \/ Len(d.v) # OUT THEN [ok |-> FALSE, layers |-> ls]
      ELSE [ok |-> TRUE,
            layers |-> UpdateLoop(ls, 1, weight_grads(d.v, OUT, NIN),
                                  bias_grads(d.v, OUT), lr)]

\* ----------------------------------------------------------------- state
VARIABLES
  rep,      \* the numeric type T of the instantiation
  shape,    \* the const generics [OUT, NIN] of the Layer1D values in layers
  layers,   \* the Layer1D values the caller owns, input to output
  call,     \* the operation called last, its arguments and what it returned
  pc,       \* position of backward_pass_1d: idle, updating, done, panicked
  bw,       \* locals of backward_pass_1d: its gradients and loop position
  events    \* what backward_pass_1d has done so far, in order

vars == <<rep, shape, layers, call, pc, bw, events>>

NoCall == [op |-> "none"]

NoBw == [weight_grads |-> <<>>, bias_grads |-> <<>>, lr |-> zero, pos |-> 0]

\* ---------------------------------------------------------- input values
\* vectors of length n over V that are uniform but for one entry
VecSet(V, n) ==
  IF n = 0 THEN {<<>>}
  ELSE {[i \in 1..n |-> IF i = p THEN b ELSE a] : a \in V, b \in V, p \in 1..n}

\* vectors of length n over V that are uniform but for the first entry
VecSet1(V, n) ==
  IF n = 0 THEN {<<>>}
  ELSE {[i \in 1..n |-> IF i = 1 THEN b ELSE a] : a \in V, b \in V}

\* R x C matrices over V that are uniform but for one entry
MatSet(V, R, C) ==
  {[i \in 1..R |-> [j \in 1..C |-> IF <<i, j>> = pq THEN b ELSE a]] :
     a \in V, b \in V, pq \in (1..R) \X (1..C)}

\* the R x C matrix whose row-major k-th entry is (base + k) * num / den
RampMat(R, C, base, num, den) ==
  [i \in 1..R |-> [j \in 1..C |-> F((base + (i - 1) * C + j) * num, den)]]

\* the vector whose k-th entry is (base + k) * num / den
RampVec(n, base, num, den) == [i \in 1..n |-> F((base + i) * num, den)]

UniMat(R, C, v) == [i \in 1..R |-> [j \in 1..C |-> v]]

\* the layers a caller starts from: distinct weights, all-zero weights, and
\* the uniform weights of main.rs
LayerSet(r, OUT, NIN) ==
  IF r = "i32"
  THEN {Layer1D(RampMat(OUT, NIN, 0, 1, 1), RampVec(OUT, 0, -1, 1)),
        Layer1D(ZeroMat(OUT, NIN), RampVec(OUT, 0, -1, 1)),
        Layer1D(UniMat(OUT, NIN, I(2)), RampVec(OUT, 0, 1, 1))}
  ELSE {Layer1D(RampMat(OUT, NIN, 0, 1, 2), RampVec(OUT, 0, -1, 2)),
        Layer1D(ZeroMat(OUT, NIN), RampVec(OUT, 0, 1, 10)),
        Layer1D(UniMat(OUT, NIN, F(1, 2)), RampVec(OUT, 0, 1, 10))}

InVals(r) ==
  IF r = "i32" THEN {I(1), I(2), I(-1)}
  ELSE {I(1), I(2), F(-1, 2), PInf, NaN}

GradVals(r) == IF r = "i32" THEN {I(0), I(1), I(-2)} ELSE {I(0), I(1), PInf}

RateVals(r) == IF r = "i32" THEN {I(0), I(2), I(-1)} ELSE {I(0), F(1, 2), PInf}

\* ------------------------------------------- Spec: one Layer1D and its use
\* a caller constructs one Layer1D<T, OUT, IN> with Layer1D::new
Init ==
  /\ rep \in Reps
  /\ shape \in [OUT : 1..MaxDim, NIN : 1..MaxDim]
  /\ layers \in {<<l>> : l \in LayerSet(rep, shape.OUT, shape.NIN)}
  /\ call = NoCall
  /\ pc = "idle"
  /\ bw = NoBw
  /\ events = <<>>

\* layer.forward(&inputs)
Forward(inputs) ==
  /\ call.op = "none"
  /\ call' = [op |-> "forward", inputs |-> inputs, layer |-> layers[1],
              out |-> dense_linear(inputs, layers[1])]
  /\ UNCHANGED <<rep, shape, layers, pc, bw, events>>

\* layer.update_weights(&weight_grads, &bias_grads, learning_rate)
UpdateWeights(wg, bg, lr) ==
  /\ call.op = "none"
  /\ layers' = [layers EXCEPT ![1] = update_weights(@, wg, bg, lr)]
  /\ call' = [op |-> "update_weights", weight_grads |-> wg, bias_grads |-> bg,
              lr |-> lr, old |-> layers[1]]
  /\ UNCHANGED <<rep, shape, pc, bw, events>>

Next ==
  \/ \E inputs \in VecSet(InVals(rep), shape.NIN) : Forward(inputs)
  \/ \E wg \in MatSet(GradVals(rep), shape.OUT, shape.NIN),
        bg \in VecSet(GradVals(rep), shape.OUT),
        lr \in RateVals(rep) : UpdateWeights(wg, bg, lr)

Spec == Init /\ [][Next]_vars

\* ----------------------------------------------------------------- C1
\* bias[i] + sum over j of input[j] * weight[i][j], the sum taken on its own
RECURSIVE SumProd(_, _, _)
SumProd(inputs, row, n) ==
  IF n = 0 THEN zero
  ELSE Add(SumProd(inputs, row, n - 1), Mul(inputs[n], row[n]))

AllZeroWeights(layer) ==
  \A i \in DOMAIN layer.weights : \A j \in DOMAIN layer.weights[i] :
     IsZero(layer.weights[i][j])

AllFinite(v) == \A i \in DOMAIN v : IsFinite(v[i])

ForwardIsAffine ==
  call.op = "forward" =>
    /\ Len(call.out) = shape.OUT
    /\ (/\ call.layer.weights = <<<<F(1, 2), F(1, 2)>>>>
        /\ call.layer.biases = <<F(1, 10)>>
        /\ call.inputs = <<I(1), I(2)>>) => call.out = <<F(16, 10)>>
    /\ \A i \in 1..shape.OUT :
         call.out[i] = Add(call.layer.biases[i],
                           SumProd(call.inputs, call.layer.weights[i], shape.NIN))

\* C1 as stated: forward is bias plus the weighted sum, and a layer whose
\* weights are all zero returns its bias vector for any input
C1_Original ==
  /\ ForwardIsAffine
  /\ (call.op = "forward" /\ AllZeroWeights(call.layer)) =>
       call.out = call.layer.biases

\* C1 (amended): output[i] = bias[i] + sum_j input[j] * weight[i][j] for every
\* i, and a layer whose weights are all zero returns exactly its bias vector
\* for every input whose entries are all finite
C1_ForwardAffine ==
  /\ ForwardIsAffine
  /\ (call.op = "forward" /\ AllZeroWeights(call.layer) /\ AllFinite(call.inputs)) =>
       call.out = call.layer.biases

\* a forward pass through all-zero weights with two distinct finite inputs
C1_Witness ==
  /\ call.op = "forward"
  /\ AllZeroWeights(call.layer)
  /\ shape.OUT = 2 /\ shape.NIN = 2
  /\ call.inputs = <<I(1), I(2)>>
  /\ call.out = call.layer.biases

\* ----------------------------------------------------------------- C2
\* C2: after update(weight_gradient, bias_gradient, lr) every weight is
\* old weight - lr * weight_gradient and every bias is old bias - lr *
\* bias_gradient, and nothing else enters
C2_UpdateIsGradientDescent ==
  call.op = "update_weights" =>
    /\ \A i \in 1..shape.OUT : \A j \in 1..shape.NIN :
         layers[1].weights[i][j] =
           Sub(call.old.weights[i][j], Mul(call.lr, call.weight_grads[i][j]))
    /\ \A i \in 1..shape.OUT :
         layers[1].biases[i] =
           Sub(call.old.biases[i], Mul(call.lr, call.bias_grads[i]))

\* an update that changes a weight and a bias by different finite amounts
C2_Witness ==
  /\ call.op = "update_weights"
  /\ shape.OUT = 2 /\ shape.NIN = 2
  /\ call.lr = I(2)
  /\ call.weight_grads[2][1] = I(1) /\ call.bias_grads[2] = I(-2)
  /\ layers[1].weights[2][1] = Sub(call.old.weights[2][1], I(2))
  /\ layers[1].biases[2] = Add(call.old.biases[2], I(4))

\* ----------------------------------------------------------------- C3
AllZeroGrads ==
  /\ \A i \in 1..shape.OUT : \A j \in 1..shape.NIN : IsZero(call.weight_grads[i][j])
  /\ \A i \in 1..shape.OUT : IsZero(call.bias_grads[i])

AllFiniteGrads ==
  /\ \A i \in 1..shape.OUT : \A j \in 1..shape.NIN : IsFinite(call.weight_grads[i][j])
  /\ \A i \in 1..shape.OUT : IsFinite(call.bias_grads[i])

\* C3 as stated: zero gradients with any learning rate, or a zero learning
\* rate with any gradients, leave the layer unchanged
C3_Original ==
  (call.op = "update_weights" /\ (AllZeroGrads \/ IsZero(call.lr))) =>
    layers[1] = call.old

\* C3 (amended): zero gradients with any finite learning rate, or a zero
\* learning rate with gradients that are all finite, leave every weight and
\* every bias unchanged
C3_NoOpUpdate ==
  (call.op = "update_weights" /\
     \/ AllZeroGrads /\ IsFinite(call.lr)
     \/ IsZero(call.lr) /\ AllFiniteGrads) =>
    layers[1] = call.old

\* a zero learning rate with a gradient that is not zero
C3_Witness ==
  /\ call.op = "update_weights"
  /\ IsZero(call.lr)
  /\ AllFiniteGrads
  /\ ~AllZeroGrads
  /\ ~AllZeroWeights(call.old)
  /\ layers[1] = call.old

\* ------------------------------ SpecPure: the free functions, called once
ConvVals(r) == IF r = "i32" THEN {I(2), I(3), I(-1)} ELSE {I(1), F(1, 2), PInf}

\* the Layer2D values passed to dense_conv2d: distinct filter entries, and on
\* f64 also a filter matrix whose last column is +inf
Layer2DSet(r, FILTERS, FILTER_SIZE) ==
  IF r = "i32"
  THEN {Layer2D(RampMat(FILTERS, FILTER_SIZE, 0, 1, 1), RampVec(FILTERS, -1, 1, 1))}
  ELSE {Layer2D(RampMat(FILTERS, FILTER_SIZE, 0, 1, 2), RampVec(FILTERS, 0, 1, 10)),
        Layer2D([i \in 1..FILTERS |->
                   [j \in 1..FILTER_SIZE |-> IF j = FILTER_SIZE THEN PInf ELSE I(i + j)]],
                RampVec(FILTERS, 0, 1, 10))}

\* the slices passed to linear and conv2d: distinct entries, any length
ValueSeqs(r) ==
  {RampVec(L, base, 1, IF r = "i32" THEN 1 ELSE 2) : L \in 0..MaxLen, base \in {0, 4}}

LossVals(r) ==
  IF r = "i32" THEN {I(0), I(1), I(3)} ELSE {I(0), F(1, 2), I(1), PInf}

LossVecs(r) == UNION {VecSet(LossVals(r), m) : m \in 0..MaxDim}

InitPure ==
  /\ rep \in Reps
  /\ shape = [OUT |-> 0, NIN |-> 0]
  /\ layers = <<>>
  /\ call = NoCall
  /\ pc = "idle"
  /\ bw = NoBw
  /\ events = <<>>

\* dense_conv2d(&inputs, &layer)
DenseConv2d(inputs, layer) ==
  /\ call.op = "none"
  /\ call' = [op |-> "dense_conv2d", inputs |-> inputs, layer |-> layer,
              out |-> dense_conv2d(inputs, layer)]
  /\ UNCHANGED <<rep, shape, layers, pc, bw, events>>

\* linear::<T, N, IN>(&values)
Linear(values, N, NIN) ==
  /\ call.op = "none"
  /\ call' = [op |-> "linear", values |-> values, ROWS |-> N, COLS |-> NIN,
              matrix |-> linear(values, N, NIN).weights,
              biases |-> linear(values, N, NIN).biases]
  /\ UNCHANGED <<rep, shape, layers, pc, bw, events>>

\* conv2d::<T, FILTERS, FILTER_SIZE>(&values)
Conv2d(values, FILTERS, FILTER_SIZE) ==
  /\ call.op = "none"
  /\ call' = [op |-> "conv2d", values |-> values, ROWS |-> FILTERS,
              COLS |-> FILTER_SIZE,
              matrix |-> conv2d(values, FILTERS, FILTER_SIZE).filters,
              biases |-> conv2d(values, FILTERS, FILTER_SIZE).biases]
  /\ UNCHANGED <<rep, shape, layers, pc, bw, events>>

\* loss.forward(&predictions, &targets)
LossForward(kind, predictions, targets) ==
  /\ call.op = "none"
  /\ call' = [op |-> "Loss_forward", kind |-> kind, predictions |-> predictions,
              targets |-> targets,
              out |-> Loss_forward(rep, kind, predictions, targets)]
  /\ UNCHANGED <<rep, shape, layers, pc, bw, events>>

\* the predictions and targets handed to Loss::derivative: predictions below
\* 0, inside [0, 1] and above 1
DerivPreds(r) ==
  IF r = "i32" THEN {I(-1), I(0), I(1), I(2)}
  ELSE {I(-1), I(0), F(1, 2), I(1), I(2)}

DerivTargets(r) == IF r = "i32" THEN {I(0), I(1), I(3)} ELSE {I(0), I(1)}

\* loss.derivative(&predictions, &targets)
LossDerivative(kind, predictions, targets) ==
  /\ call.op = "none"
  /\ call' = [op |-> "Loss_derivative", kind |-> kind,
              predictions |-> predictions, targets |-> targets,
              ok |-> Loss_derivative(rep, kind, predictions, targets).ok,
              out |-> Loss_derivative(rep, kind, predictions, targets).v]
  /\ UNCHANGED <<rep, shape, layers, pc, bw, events>>

NextPure ==
  \/ \E FILTERS \in 1..MaxDim, FILTER_SIZE \in 1..(MaxDim + 1), n \in 0..(MaxDim + 1) :
       \E inputs \in VecSet(ConvVals(rep), n),
          layer \in Layer2DSet(rep, FILTERS, FILTER_SIZE) :
            DenseConv2d(inputs, layer)
  \/ \E values \in ValueSeqs(rep), N \in 1..(2 * MaxDim), NIN \in 1..MaxDim :
       Linear(values, N, NIN)
  \/ \E values \in ValueSeqs(rep), FILTERS \in 1..MaxDim, FILTER_SIZE \in 1..(MaxDim + 1) :
       Conv2d(values, FILTERS, FILTER_SIZE)
  \/ \E kind \in LossKinds, predictions \in LossVecs(rep), targets \in LossVecs(rep) :
       LossForward(kind, predictions, targets)
  \/ \E kind \in LossKinds, m \in 0..MaxDim, n \in 0..MaxDim :
       \E predictions \in VecSet(DerivPreds(rep), m),
          targets \in VecSet(DerivTargets(rep), n) :
            LossDerivative(kind, predictions, targets)

SpecPure == InitPure /\ [][NextPure]_vars

\* no value of a run lies outside the window the number model represents
InWindow ==
  /\ \A l \in DOMAIN layers :
       /\ \A i \in DOMAIN layers[l].biases : ~Bad(layers[l].biases[i])
       /\ \A i \in DOMAIN layers[l].weights : \A j \in DOMAIN layers[l].weights[i] :
            ~Bad(layers[l].weights[i][j])
  /\ call.op \in {"Loss_forward"} => call.out.k # "unk"
  /\ call.op \in {"forward", "dense_conv2d", "Loss_derivative"} =>
       \A i \in DOMAIN call.out : call.out[i].k # "unk"

\* ----------------------------------------------------------------- C4
NoPanic(v) == \A i \in DOMAIN v : v[i].k # "panic"

\* C4: output[i] = bias[i] + sum over j < FILTER_SIZE with j < IN of
\* input[j] * filter[i][j]; filter positions at or past the input length add
\* nothing and no call fails (2 filters of size 3 on an input of length 2)
C4_ConvWindow ==
  call.op = "dense_conv2d" =>
    /\ Len(call.out) = Len(call.layer.biases)
    /\ NoPanic(call.out)
    /\ \A i \in 1..Len(call.layer.biases) :
         call.out[i] =
           Add(call.layer.biases[i],
               SumProd(call.inputs, call.layer.filters[i],
                       Min2(Len(call.layer.filters[i]), Len(call.inputs))))
    /\ (/\ call.inputs = <<I(2), I(3)>>
        /\ call.layer = Layer2D(<<<<I(1), I(2), I(3)>>, <<I(4), I(5), I(6)>>>>,
                                <<I(0), I(1)>>)) => call.out = <<I(8), I(24)>>

\* 2 filters of size 3 on the input [2, 3]: position 2 of both filters unused
C4_Witness ==
  /\ call.op = "dense_conv2d"
  /\ call.inputs = <<I(2), I(3)>>
  /\ call.layer = Layer2D(<<<<I(1), I(2), I(3)>>, <<I(4), I(5), I(6)>>>>,
                          <<I(0), I(1)>>)
  /\ call.out = <<I(8), I(24)>>

C8_BinaryNeedsOnePair ==
  (call.op = "Loss_forward" /\ call.kind = "BinaryCrossEntropy") =>
    /\ (Len(call.predictions) # 1 \/ Len(call.targets) # 1) => call.out = Panic
    /\ (Len(call.predictions) = 1 /\ Len(call.targets) = 1) =>
         /\ call.out = binary_cross_entropy_loss(rep, call.predictions[1],
                                                 call.targets[1])
         /\ rep = "f64" => call.out.k # "panic"

\* one prediction against two targets: the call fails
C8_Witness ==
  /\ call.op = "Loss_forward" /\ call.kind = "BinaryCrossEntropy"
  /\ Len(call.predictions) = 1 /\ Len(call.targets) = 2
  /\ call.out = Panic

\* ----------------------------------------------------------------- C9
\* C9: Loss.forward with MeanSquaredError or CrossEntropy on empty
\* predictions and targets is a caller-visible failure on every numeric
\* representation and never returns a value
C9_EmptyFails ==
  (/\ call.op = "Loss_forward"
   /\ call.kind \in {"MeanSquaredError", "CrossEntropy"}
   /\ call.predictions = <<>> /\ call.targets = <<>>) => call.out = Panic

\* ---------------------------------------------------------------- C10
\* C10 as stated: MeanSquaredError of a vector against itself is zero for
\* any vector of any length
C10_Original ==
  (/\ call.op = "Loss_forward" /\ call.kind = "MeanSquaredError"
   /\ call.predictions = call.targets) => call.out = zero

\* C10 (amended): MeanSquaredError of a vector against itself is exactly
\* zero for every non-empty vector whose entries are all finite
C10_SelfLossZero ==
  (/\ call.op = "Loss_forward" /\ call.kind = "MeanSquaredError"
   /\ call.predictions = call.targets
   /\ Len(call.predictions) > 0 /\ AllFinite(call.predictions)) => call.out = zero

\* a vector of two distinct non-zero entries against itself
C10_Witness ==
  /\ call.op = "Loss_forward" /\ call.kind = "MeanSquaredError"
  /\ call.predictions = call.targets
  /\ Len(call.predictions) = 2
  /\ call.predictions[1] # call.predictions[2]
  /\ ~IsZero(call.predictions[1]) /\ ~IsZero(call.predictions[2])
  /\ call.out = zero

\* --------------------------------- SpecBack: one call of backward_pass_1d
\* the layer sequences handed to the driver: layer l has its own weights
BackLayers(r, OUT, NIN, n) ==
  [l \in 1..n |-> Layer1D(RampMat(OUT, NIN, 10 * l, 1, IF r = "i32" THEN 1 ELSE 2),
                          RampVec(OUT, l, 1, IF r = "i32" THEN 1 ELSE 2))]

PredVals(r) == IF r = "i32" THEN {I(0), I(1), I(3)} ELSE {I(0), F(1, 2), I(2)}

TargetVals(r) == {I(0), I(1)}

BackRates(r) == IF r = "i32" THEN {I(1), I(-2)} ELSE {F(1, 2), I(2)}

InitBack ==
  /\ rep \in Reps
  /\ shape \in [OUT : 1..MaxDim, NIN : 1..MaxDim]
  /\ layers \in {BackLayers(rep, shape.OUT, shape.NIN, n) : n \in 1..MaxLayers}
  /\ call = NoCall
  /\ pc = "idle"
  /\ bw = NoBw
  /\ events = <<>>

\* a backward_pass_1d without its assertion on the number of gradients
BackwardCall_noassert(kind, predictions, targets, lr) ==
  /\ pc = "idle"
  /\ call.op = "none"
  /\ call' = [op |-> "backward_pass_1d", kind |-> kind,
              predictions |-> predictions, targets |-> targets, lr |-> lr,
              old |-> layers]
  /\ events' = <<[e |-> "derivative", i |-> 0]>>
  /\ LET d == Loss_derivative(rep, kind, predictions, targets)
     IN  IF ~d.ok
         THEN /\ pc' = "panicked"
              /\ bw' = NoBw
         ELSE /\ pc' = "updating"
              /\ bw' = [weight_grads |-> weight_grads(d.v, shape.OUT, shape.NIN),
                        bias_grads |-> bias_grads(d.v, shape.OUT),
                        lr |-> lr, pos |-> 1]
  /\ UNCHANGED <<rep, shape, layers>>

\* backward_pass_1d up to its update loop: the loss derivative, the length
\* assertion, and the gradient buffers
BackwardCall(kind, predictions, targets, lr) ==
  /\ pc = "idle"
  /\ call.op = "none"
  /\ call' = [op |-> "backward_pass_1d", kind |-> kind,
              predictions |-> predictions, targets |-> targets, lr |-> lr,
              old |-> layers]
  /\ events' = <<[e |-> "derivative", i |-> 0]>>
  /\ LET d == Loss_derivative(rep, kind, predictions, targets)
     IN  IF ~d.ok \/ Len(d.v) # shape.OUT
         THEN /\ pc' = "panicked"
              /\ bw' = NoBw
         ELSE /\ pc' = "updating"
              /\ bw' = [weight_grads |-> weight_grads(d.v, shape.OUT, shape.NIN),
                        bias_grads |-> bias_grads(d.v, shape.OUT),
                        lr |-> lr, pos |-> 1]
  /\ UNCHANGED <<rep, shape, layers>>

\* one iteration of `for layer in layers.iter_mut().rev()`
BackwardStep ==
  /\ pc = "updating"
  /\ LET idx == UpdateOrder(Len(layers))[bw.pos]
     IN  /\ layers' = [layers EXCEPT ![idx] =
                         update_weights(@, bw.weight_grads, bw.bias_grads, bw.lr)]
         /\ events' = Append(events, [e |-> "update", i |-> idx])
  /\ bw' = [bw EXCEPT !.pos = @ + 1]
  /\ pc' = IF bw.pos = Len(layers) THEN "done" ELSE "updating"
  /\ UNCHANGED <<rep, shape, call>>

NextBack ==
  \/ \E kind \in LossKinds, lr \in BackRates(rep),
        m \in {shape.OUT, shape.OUT + 1}, dm \in {0, 1} :
       \E predictions \in VecSet1(PredVals(rep), m),
          targets \in VecSet1(TargetVals(rep), m - dm) :
            BackwardCall(kind, predictions, targets, lr)
  \/ BackwardStep

SpecBack == InitBack /\ [][NextBack]_vars

\* ----------------------------------------------------------------- C6
\* C6: with g = Loss.derivative(kind, predictions, targets) of length OUT,
\* after the call every layer has weight[i][j] = old weight[i][j] - lr * g[i]
\* for every column j and bias[i] = old bias[i] - lr * g[i]: the same gradient
\* vector for every layer, whatever its position, weights or inputs
C6_BroadcastGradient ==
  (call.op = "backward_pass_1d" /\ pc = "done") =>
    LET g == Loss_derivative(rep, call.kind, call.predictions, call.targets).v
    IN  /\ Len(g) = shape.OUT
        /\ Len(layers) = Len(call.old)
        /\ \A l \in 1..Len(layers) : \A i \in 1..shape.OUT :
             /\ layers[l].biases[i] =
                  Sub(call.old[l].biases[i], Mul(call.lr, g[i]))
             /\ \A j \in 1..shape.NIN :
                  layers[l].weights[i][j] =
                    Sub(call.old[l].weights[i][j], Mul(call.lr, g[i]))

\* a finished call over two layers of two columns with a gradient that
\* differs between the two outputs
C6_Witness ==
  /\ call.op = "backward_pass_1d" /\ pc = "done"
  /\ Len(layers) = 2 /\ shape.OUT = 2 /\ shape.NIN = 2
  /\ rep = "i32" /\ call.kind = "MeanSquaredError"
  /\ call.predictions = <<I(3), I(1)>> /\ call.targets = <<I(0), I(1)>>
  /\ call.lr = I(1)
  /\ layers[1].weights[1][2] = Sub(call.old[1].weights[1][2], I(6))
  /\ layers[2].weights[2][2] = call.old[2].weights[2][2]

\* ----------------------------------------------------------------- C7
\* the layers visited so far, in the order of their visits
Visited == [k \in 1..(Len(events) - 1) |-> events[k + 1].i]

\* C7: in one call the loss derivative is computed exactly once, before any
\* layer is modified, and then every layer is updated exactly once, from the
\* last (output) layer to the first (input) layer
C7_UpdateOrder ==
  call.op = "backward_pass_1d" =>
    /\ Len(events) >= 1
    /\ events[1].e = "derivative"
    /\ \A k \in 2..Len(events) :
         events[k] = [e |-> "update", i |-> Len(layers) - (k - 2)]
    /\ Len(events) = 1 => layers = call.old
    /\ \A l \in 1..Len(layers) :
         IF \E k \in 1..Len(Visited) : Visited[k] = l
         THEN layers[l] = update_weights(call.old[l], bw.weight_grads,
                                         bw.bias_grads, bw.lr)
         ELSE layers[l] = call.old[l]
    /\ pc = "done" => Len(events) = Len(layers) + 1
    /\ pc = "panicked" => Len(events) = 1

\* the call is between its two updates: the last layer is updated, the
\* first one is not yet
C7_Witness ==
  /\ call.op = "backward_pass_1d" /\ pc = "updating"
  /\ Len(layers) = 2
  /\ events = <<[e |-> "derivative", i |-> 0], [e |-> "update", i |-> 2]>>
  /\ layers[2] # call.old[2]
  /\ layers[1] = call.old[1]

\* ------------------------------------------- number and activation calls
\* the values handed to the Number methods and to the activations
NumVals(r) ==
  IF Discrete(r) THEN {I(-1000), I(-1), I(0), I(1), I(2), I(1000)}
  ELSE {I(-1000), I(-2), I(-1), F(-1, 2), I(0), F(1, 2), I(1), I(2), I(1000),
        NaN, PInf, NInf}

InitNum ==
  /\ rep \in NumberReps
  /\ shape = [OUT |-> 0, NIN |-> 0]
  /\ layers = <<>>
  /\ call = NoCall
  /\ pc = "idle"
  /\ bw = NoBw
  /\ events = <<>>

\* x.exp()
NumberExp(x) ==
  /\ call.op = "none"
  /\ call' = [op |-> "exp", x |-> x, out |-> Exp(rep, x)]
  /\ UNCHANGED <<rep, shape, layers, pc, bw, events>>

\* x.tanh()
NumberTanh(x) ==
  /\ call.op = "none"
  /\ call' = [op |-> "tanh", x |-> x, out |-> Tanh(rep, x)]
  /\ UNCHANGED <<rep, shape, layers, pc, bw, events>>

\* x.ln()
NumberLn(x) ==
  /\ call.op = "none"
  /\ call' = [op |-> "ln", x |-> x, out |-> Ln(rep, x)]
  /\ UNCHANGED <<rep, shape, layers, pc, bw, events>>

\* a.and(b)
NumberAnd(a, b) ==
  /\ call.op = "none"
  /\ call' = [op |-> "and", a |-> a, b |-> b, out |-> and(a, b)]
  /\ UNCHANGED <<rep, shape, layers, pc, bw, events>>

\* a.or(b)
NumberOr(a, b) ==
  /\ call.op = "none"
  /\ call' = [op |-> "or", a |-> a, b |-> b, out |-> or(a, b)]
  /\ UNCHANGED <<rep, shape, layers, pc, bw, events>>

\* a.not()
NumberNot(a) ==
  /\ call.op = "none"
  /\ call' = [op |-> "not", a |-> a, out |-> not(a)]
  /\ UNCHANGED <<rep, shape, layers, pc, bw, events>>

\* activation.forward(&inputs)
ActivationForward(kind, inputs) ==
  /\ call.op = "none"
  /\ call' = [op |-> "Activation_forward", kind |-> kind, inputs |-> inputs,
              out |-> Activation_forward(rep, kind, inputs)]
  /\ UNCHANGED <<rep, shape, layers, pc, bw, events>>

\* activation.derivative(x)
ActivationDerivative(kind, x) ==
  /\ call.op = "none"
  /\ call' = [op |-> "Activation_derivative", kind |-> kind, x |-> x,
              out |-> Activation_derivative(rep, kind, x)]
  /\ UNCHANGED <<rep, shape, layers, pc, bw, events>>

NextNum ==
  \/ \E x \in NumVals(rep) : NumberExp(x)
  \/ \E x \in NumVals(rep) : NumberTanh(x)
  \/ \E x \in NumVals(rep) : NumberLn(x)
  \/ \E a \in NumVals(rep), b \in NumVals(rep) : NumberAnd(a, b)
  \/ \E a \in NumVals(rep), b \in NumVals(rep) : NumberOr(a, b)
  \/ \E a \in NumVals(rep) : NumberNot(a)
  \/ \E kind \in ActivationKinds, n \in 0..MaxDim :
       \E inputs \in VecSet(NumVals(rep), n) : ActivationForward(kind, inputs)
  \/ \E kind \in ActivationKinds, x \in NumVals(rep) : ActivationDerivative(kind, x)

SpecNum == InitNum /\ [][NextNum]_vars

\* ---------------------------------------------------------------- C13
\* C13: exp, tanh and ln called on any i32 or i64 value always fail
C13_IntegerTranscendentalsFail ==
  (Discrete(rep) /\ call.op \in {"exp", "tanh", "ln"}) => call.out = Panic

\* exp on an i64, tanh on an i32 and ln on an i32 have each been called
C13_Witness ==
  /\ rep = "i64" /\ call.op = "exp" /\ call.x = I(2) /\ call.out = Panic

C13_WitnessTanh ==
  /\ rep = "i32" /\ call.op = "tanh" /\ call.x = I(0) /\ call.out = Panic

C13_WitnessLn ==
  /\ rep = "i32" /\ call.op = "ln" /\ call.x = I(1) /\ call.out = Panic

\* ---------------------------------------------------------------- C14
\* the call recorded in call panicked
ForwardFailed == \E i \in DOMAIN call.out : call.out[i].k = "panic"

\* C14 as stated: on the integers Activation.forward with Sigmoid or Tanh
\* fails for every input vector, Activation.derivative with Sigmoid or Tanh
\* fails for every x, and ReLU never fails
C14_Original ==
  Discrete(rep) =>
    /\ (call.op = "Activation_forward" /\ call.kind \in {"Sigmoid", "Tanh"})
         => ForwardFailed
    /\ (call.op = "Activation_derivative" /\ call.kind \in {"Sigmoid", "Tanh"})
         => call.out = Panic
    /\ (call.op = "Activation_forward" /\ call.kind = "ReLU") => ~ForwardFailed
    /\ (call.op = "Activation_derivative" /\ call.kind = "ReLU")
         => call.out # Panic

\* C14: on the integers Activation.forward with Sigmoid or Tanh fails for
\* every non-empty input vector and returns the empty array for the empty
\* one, Activation.derivative with Sigmoid or Tanh fails for every x, and
\* ReLU (forward and derivative) never fails
C14_IntegerActivations ==
  Discrete(rep) =>
    /\ (call.op = "Activation_forward" /\ call.kind \in {"Sigmoid", "Tanh"})
         => IF call.inputs = <<>> THEN call.out = <<>> ELSE ForwardFailed
    /\ (call.op = "Activation_derivative" /\ call.kind \in {"Sigmoid", "Tanh"})
         => call.out = Panic
    /\ (call.op = "Activation_forward" /\ call.kind = "ReLU") => ~ForwardFailed
    /\ (call.op = "Activation_derivative" /\ call.kind = "ReLU")
         => call.out # Panic

\* Tanh forward on the i32 array [1, 0] has failed
C14_Witness ==
  /\ rep = "i32" /\ call.op = "Activation_forward" /\ call.kind = "Tanh"
  /\ call.inputs = <<I(1), I(0)>> /\ ForwardFailed

\* Sigmoid forward on the empty i32 array has returned
C14_WitnessEmpty ==
  /\ rep = "i32" /\ call.op = "Activation_forward" /\ call.kind = "Sigmoid"
  /\ call.inputs = <<>> /\ call.out = <<>>

\* ---------------------------------------------------------------- C15
\* a <= b
Le(a, b) == Lt(a, b) \/ (a.k \in {"fin", "inf"} /\ a = b)

\* C15: ReLU forward maps every element x to x when x > 0 and to zero when
\* x <= 0, keeping length and order; ReLU derivative is one when x > 0 and
\* zero when x <= 0, so it is zero at x = 0
C15_Relu ==
  /\ (call.op = "Activation_forward" /\ call.kind = "ReLU") =>
       /\ Len(call.out) = Len(call.inputs)
       /\ \A i \in 1..Len(call.inputs) :
            /\ Gt(call.inputs[i], zero) => call.out[i] = call.inputs[i]
            /\ Le(call.inputs[i], zero) => call.out[i] = zero
  /\ (call.op = "Activation_derivative" /\ call.kind = "ReLU") =>
       /\ Gt(call.x, zero) => call.out = one
       /\ Le(call.x, zero) => call.out = zero
       /\ call.x = zero => call.out = zero

\* the derivative at 0 on f32 is 0
C15_Witness ==
  /\ rep = "f32" /\ call.op = "Activation_derivative" /\ call.kind = "ReLU"
  /\ call.x = I(0) /\ call.out = I(0)

\* ReLU forward on [-2, 2] gives [0, 2]
C15_WitnessForward ==
  /\ call.op = "Activation_forward" /\ call.kind = "ReLU"
  /\ call.inputs = <<I(-2), I(2)>> /\ call.out = <<I(0), I(2)>>

\* ---------------------------------------------------------------- C18
\* C18: and(a, b) is one exactly when both operands are nonzero, or(a, b) is
\* one exactly when at least one operand is nonzero, not(a) is one exactly
\* when a is zero; every result is exactly one or zero
C18_LogicalOps ==
  /\ call.op \in {"and", "or", "not"} => call.out \in {one, zero}
  /\ call.op = "and" => (call.out = one <=> (call.a # zero /\ call.b # zero))
  /\ call.op = "or" => (call.out = one <=> (call.a # zero \/ call.b # zero))
  /\ call.op = "not" => (call.out = one <=> call.a = zero)

\* and(2, 0) on i64 is zero
C18_Witness ==
  /\ rep = "i64" /\ call.op = "and" /\ call.a = I(2) /\ call.b = I(0)
  /\ call.out = zero

\* or(0, -1) is one; not(1/2) is zero
C18_WitnessOr ==
  /\ call.op = "or" /\ call.a = I(0) /\ call.b = I(-1) /\ call.out = one

C18_WitnessNot ==
  /\ rep = "f64" /\ call.op = "not" /\ call.a = F(1, 2) /\ call.out = zero

\* ---------------------------------------------------------------- C19
\* C19 as stated: for every finite x of a continuous representation
\* sigmoid(x) = 1 / (1 + exp(-x)) lies strictly between 0 and 1, and
\* sigmoid(0) = 0.5
C19_Original ==
  (~Discrete(rep) /\ call.op = "Activation_forward" /\ call.kind = "Sigmoid") =>
    \A i \in 1..Len(call.inputs) :
      IsFinite(call.inputs[i]) =>
        /\ call.out[i] = Div(rep, one, Add(one, Exp(rep, Neg(call.inputs[i]))))
        /\ Gt(call.out[i], zero) /\ Lt(call.out[i], one)
        /\ call.inputs[i] = zero => call.out[i] = F(1, 2)

\* C19: for every finite x of a continuous representation
\* sigmoid(x) = 1 / (1 + exp(-x)) lies in the closed interval [0, 1], strictly
\* inside it for |x| <= 2, and sigmoid(0) = 0.5
C19_SigmoidRange ==
  (~Discrete(rep) /\ call.op = "Activation_forward" /\ call.kind = "Sigmoid") =>
    \A i \in 1..Len(call.inputs) :
      IsFinite(call.inputs[i]) =>
        /\ call.out[i] = Div(rep, one, Add(one, Exp(rep, Neg(call.inputs[i]))))
        /\ Le(zero, call.out[i]) /\ Le(call.out[i], one)
        /\ (Le(I(-2), call.inputs[i]) /\ Le(call.inputs[i], I(2))) =>
             (Gt(call.out[i], zero) /\ Lt(call.out[i], one))
        /\ call.inputs[i] = zero => call.out[i] = F(1, 2)

\* sigmoid(1000) is exactly 1 and sigmoid(-1000) is exactly 0 on f64
C19_Witness ==
  /\ rep = "f64" /\ call.op = "Activation_forward" /\ call.kind = "Sigmoid"
  /\ call.inputs = <<I(1000), I(-1000)>> /\ call.out = <<one, zero>>

\* sigmoid(0) = 0.5 and sigmoid(1) = 1000/1368 on f32
C19_WitnessMid ==
  /\ rep = "f32" /\ call.op = "Activation_forward" /\ call.kind = "Sigmoid"
  /\ call.inputs = <<I(0), I(1)>> /\ call.out = <<F(1, 2), F(1000, 1368)>>

\* ---------------------------------------------------------------- C11
\* C11: Loss.derivative with MeanSquaredError on two vectors of one length n
\* (n = 0 included) returns exactly n elements, element i being
\* 2 * (predictions[i] - targets[i]); nothing is divided by n
C11_MseDerivative ==
  (call.op = "Loss_derivative" /\ call.kind = "MeanSquaredError"
     /\ Len(call.predictions) = Len(call.targets)) =>
    /\ call.ok
    /\ Len(call.out) = Len(call.predictions)
    /\ \A i \in 1..Len(call.predictions) :
         call.out[i] = Mul(to_number(rep, I(2)),
                           Sub(call.predictions[i], call.targets[i]))

\* two pairs: (2, 0) and (0, 1) give 4 and -2, not 2 and -1
C11_Witness ==
  /\ call.op = "Loss_derivative" /\ call.kind = "MeanSquaredError"
  /\ call.predictions = <<I(2), I(0)>> /\ call.targets = <<I(0), I(1)>>
  /\ call.ok /\ call.out = <<I(4), I(-2)>>

\* the empty pair of vectors gives the empty vector
C11_WitnessEmpty ==
  /\ call.op = "Loss_derivative" /\ call.kind = "MeanSquaredError"
  /\ call.predictions = <<>> /\ call.targets = <<>>
  /\ call.ok /\ call.out = <<>>

\* ---------------------------------------------------------------- C12
\* C12 as stated: the BinaryCrossEntropy derivative of (p, t) is
\* -t / clamp(p, eps, 1 - eps) + (1 - t) / clamp(1 - p, eps, +inf), the second
\* clamp taken of 1 minus the given prediction p
C12_Original ==
  (call.op = "Loss_derivative" /\ call.kind = "BinaryCrossEntropy"
     /\ Len(call.predictions) = Len(call.targets)) =>
    LET eps == to_number(rep, EpsLit)
        clamp(x, lo, hi) == IF Lt(x, lo) THEN lo ELSE IF Gt(x, hi) THEN hi ELSE x
        expected == [i \in 1..Len(call.predictions) |->
          Add(Neg(Div(rep, call.targets[i],
                      clamp(call.predictions[i], eps, Sub(one, eps)))),
              Div(rep, Sub(one, call.targets[i]),
                  clamp(Sub(one, call.predictions[i]), eps, PInf)))]
    IN  IF NoPanic(expected) THEN call.ok /\ call.out = expected ELSE ~call.ok

\* C12: the BinaryCrossEntropy derivative of (p, t) is
\* -t / pc + (1 - t) / clamp(1 - pc, eps, +inf) with pc = clamp(p, eps, 1 - eps):
\* the second clamp is taken of 1 minus the clamped prediction; one element
\* per pair, and the call fails when a division fails
C12_BceDerivative ==
  (call.op = "Loss_derivative" /\ call.kind = "BinaryCrossEntropy"
     /\ Len(call.predictions) = Len(call.targets)) =>
    LET eps == to_number(rep, EpsLit)
        clamp(x, lo, hi) == IF Lt(x, lo) THEN lo ELSE IF Gt(x, hi) THEN hi ELSE x
        expected == [i \in 1..Len(call.predictions) |->
          LET p_clamped == clamp(call.predictions[i], eps, Sub(one, eps))
          IN  Add(Neg(Div(rep, call.targets[i], p_clamped)),
                  Div(rep, Sub(one, call.targets[i]),
                      clamp(Sub(one, p_clamped), eps, PInf)))]
    IN  IF NoPanic(expected) THEN call.ok /\ call.out = expected ELSE ~call.ok

\* p = -1 with t = 0 on f64: the element is 1 / (1 - eps) = 1 + eps, where
\* 1 / (1 - p) would be 1/2
C12_Witness ==
  /\ rep = "f64"
  /\ call.op = "Loss_derivative" /\ call.kind = "BinaryCrossEntropy"
  /\ call.predictions = <<I(-1)>> /\ call.targets = <<I(0)>>
  /\ call.ok /\ call.out = <<Fin3(Q0, Q1, Q1)>>

\* ---------------------------------------------------------------- C20
\* C20: Loss.forward with MeanSquaredError or CrossEntropy fails whenever
\* predictions and targets differ in length, targets shorter or longer
C20_UnequalLengthsFail ==
  (call.op = "Loss_forward" /\ call.kind \in {"MeanSquaredError", "CrossEntropy"}
     /\ Len(call.predictions) # Len(call.targets)) => call.out = Panic

\* with targets shorter the call fails
C20_ShorterFails ==
  (call.op = "Loss_forward" /\ call.kind \in {"MeanSquaredError", "CrossEntropy"}
     /\ Len(call.predictions) > Len(call.targets)) => call.out = Panic

\* with targets longer the mean squared error of [1] and [1, 0] on f64 is 0
C20_LongerReturns ==
  /\ rep = "f64" /\ call.op = "Loss_forward" /\ call.kind = "MeanSquaredError"
  /\ call.predictions = <<I(1)>> /\ call.targets = <<I(1), I(0)>>
  /\ call.out = zero

\* ------------------------------------------------- sequences of calls
\* the longest sequence of calls a caller makes
MaxCalls == 2

\* the denominator of the values of a representation
SeqDen(r) == IF r = "i32" THEN 1 ELSE 2

\* the layers a caller builds with linear: layer l holds l/den, (l+1)/den, ...
SeqLayers(r, OUT, NIN, n) ==
  [l \in 1..n |-> linear(RampVec(OUT * NIN, l - 1, 1, SeqDen(r)), OUT, NIN)]

\* the input arrays of the forward calls
SeqInputs(r, NIN) == {RampVec(NIN, 0, 1, SeqDen(r)), RampVec(NIN, 3, -1, SeqDen(r))}

\* the Layer2D of the windowed forward calls
SeqLayer2D(r) == conv2d(RampVec(6, 0, 1, SeqDen(r)), 2, 3)

\* the learning rate of the updates
SeqRate(r) == F(1, SeqDen(r))

\* the entry a completed call leaves in the log: its operation, the layer
\* it was called on, its input and output, and every layer before and after
Entry(op, l, inputs, out, before, after) ==
  [op |-> op, l |-> l, inputs |-> inputs, out |-> out,
   before |-> before, after |-> after]

InitSeq ==
  /\ rep \in Reps
  /\ shape \in [OUT : 1..MaxDim, NIN : 1..MaxDim]
  /\ layers \in {SeqLayers(rep, shape.OUT, shape.NIN, n) : n \in 1..MaxLayers}
  /\ call = NoCall
  /\ pc = "idle"
  /\ bw = NoBw
  /\ events = <<>>

\* a forward call that stores its outputs in the layer's biases
SeqForward_caching(l, inputs) ==
  /\ pc = "idle" /\ Len(events) < MaxCalls
  /\ layers' = [layers EXCEPT ![l].biases = dense_linear(inputs, layers[l])]
  /\ events' = Append(events, Entry("forward", l, inputs,
                                    dense_linear(inputs, layers[l]), layers, layers'))
  /\ UNCHANGED <<rep, shape, call, pc, bw>>

\* layers[l].forward(&inputs): takes &self
SeqForward(l, inputs) ==
  /\ pc = "idle" /\ Len(events) < MaxCalls
  /\ UNCHANGED layers
  /\ events' = Append(events, Entry("forward", l, inputs,
                                    dense_linear(inputs, layers[l]), layers, layers'))
  /\ UNCHANGED <<rep, shape, call, pc, bw>>

\* layers[l].update_weights(&weight_grads, &bias_grads, learning_rate)
SeqUpdateWeights(l, wg, bg, lr) ==
  /\ pc = "idle" /\ Len(events) < MaxCalls
  /\ layers' = [layers EXCEPT ![l] = update_weights(@, wg, bg, lr)]
  /\ events' = Append(events, Entry("update_weights", l, <<>>, <<>>, layers, layers'))
  /\ UNCHANGED <<rep, shape, call, pc, bw>>

\* backward_pass_1d(&mut layers, &loss, &predictions, &targets, lr); a panic
\* ends the caller's sequence
SeqBackward(kind, predictions, targets, lr) ==
  /\ pc = "idle" /\ Len(events) < MaxCalls
  /\ LET r == backward_pass_1d(rep, layers, kind, predictions, targets, lr,
                               shape.OUT, shape.NIN)
     IN  /\ layers' = r.layers
         /\ pc' = IF r.ok THEN "idle" ELSE "panicked"
  /\ events' = Append(events, Entry("backward_pass_1d", 0, predictions, <<>>,
                                    layers, layers'))
  /\ UNCHANGED <<rep, shape, call, bw>>

\* layer2d.forward(&inputs) on a Layer2D the caller also owns
SeqConvForward(inputs) ==
  /\ pc = "idle" /\ Len(events) < MaxCalls
  /\ UNCHANGED layers
  /\ events' = Append(events, Entry("conv_forward", 0, inputs,
                                    dense_conv2d(inputs, SeqLayer2D(rep)),
                                    layers, layers'))
  /\ UNCHANGED <<rep, shape, call, pc, bw>>

\* activation.forward(&inputs)
SeqActivationForward(kind, inputs) ==
  /\ pc = "idle" /\ Len(events) < MaxCalls
  /\ UNCHANGED layers
  /\ events' = Append(events, Entry("Activation_forward", 0, inputs,
                                    Activation_forward(rep, kind, inputs),
                                    layers, layers'))
  /\ pc' = IF \E i \in 1..Len(inputs) :
                Activation_forward(rep, kind, inputs)[i].k = "panic"
           THEN "panicked" ELSE "idle"
  /\ UNCHANGED <<rep, shape, call, bw>>

\* activation.derivative(x)
SeqActivationDerivative(kind, x) ==
  /\ pc = "idle" /\ Len(events) < MaxCalls
  /\ UNCHANGED layers
  /\ events' = Append(events, Entry("Activation_derivative", 0, <<x>>,
                                    <<Activation_derivative(rep, kind, x)>>,
                                    layers, layers'))
  /\ pc' = IF Activation_derivative(rep, kind, x).k = "panic"
           THEN "panicked" ELSE "idle"
  /\ UNCHANGED <<rep, shape, call, bw>>

\* loss.forward(&predictions, &targets)
SeqLossForward(kind, predictions, targets) ==
  /\ pc = "idle" /\ Len(events) < MaxCalls
  /\ UNCHANGED layers
  /\ events' = Append(events, Entry("Loss_forward", 0, predictions,
                                    <<Loss_forward(rep, kind, predictions, targets)>>,
                                    layers, layers'))
  /\ pc' = IF Loss_forward(rep, kind, predictions, targets).k = "panic"
           THEN "panicked" ELSE "idle"
  /\ UNCHANGED <<rep, shape, call, bw>>

\* loss.derivative(&predictions, &targets)
SeqLossDerivative(kind, predictions, targets) ==
  /\ pc = "idle" /\ Len(events) < MaxCalls
  /\ UNCHANGED layers
  /\ events' = Append(events, Entry("Loss_derivative", 0, predictions,
                                    Loss_derivative(rep, kind, predictions, targets).v,
                                    layers, layers'))
  /\ pc' = IF Loss_derivative(rep, kind, predictions, targets).ok
           THEN "idle" ELSE "panicked"
  /\ UNCHANGED <<rep, shape, call, bw>>

NextSeq ==
  \/ \E l \in DOMAIN layers, inputs \in SeqInputs(rep, shape.NIN) :
       SeqForward(l, inputs)
  \/ \E l \in DOMAIN layers :
       SeqUpdateWeights(l, UniMat(shape.OUT, shape.NIN, one),
                        RampVec(shape.OUT, 0, 1, 1), SeqRate(rep))
  \/ \E kind \in {"MeanSquaredError", "BinaryCrossEntropy"},
        m \in {shape.OUT, shape.OUT + 1} :
       SeqBackward(kind, RampVec(m, 0, 1, SeqDen(rep)), ZeroVec(m), SeqRate(rep))
  \/ SeqConvForward(RampVec(2, 0, 1, SeqDen(rep)))
  \/ \E kind \in {"Sigmoid", "ReLU"} :
       SeqActivationForward(kind, RampVec(shape.OUT, -1, 1, 1))
  \/ SeqActivationDerivative("Tanh", one)
  \/ SeqLossForward("MeanSquaredError", RampVec(shape.OUT, 0, 1, 1), ZeroVec(shape.OUT))
  \/ SeqLossDerivative("CrossEntropy", RampVec(shape.OUT, 0, 1, 1), ZeroVec(shape.OUT))

SpecSeq == InitSeq /\ [][NextSeq]_vars

\* ---------------------------------------------------------------- C16
\* C16: after construction and after any sequence of forward, update and
\* backward-driver calls every Layer1D has exactly OUT weight rows, each of
\* length IN, and a bias vector of length OUT
C16_ShapeInvariant ==
  \A l \in DOMAIN layers :
    /\ Len(layers[l].weights) = shape.OUT
    /\ \A i \in DOMAIN layers[l].weights : Len(layers[l].weights[i]) = shape.NIN
    /\ Len(layers[l].biases) = shape.OUT

\* a 1 x 2 layer has been updated and then driven through backward_pass_1d,
\* and both calls changed it
C16_Witness ==
  /\ shape = [OUT |-> 1, NIN |-> 2]
  /\ Len(events) = 2
  /\ events[1].op = "update_weights" /\ events[2].op = "backward_pass_1d"
  /\ events[1].after # events[1].before /\ events[2].after # events[2].before
  /\ pc = "idle"

\* ---------------------------------------------------------------- C17
\* the calls that take the layers by shared reference or not at all
ReadOnlyOps ==
  {"forward", "conv_forward", "Activation_forward", "Activation_derivative",
   "Loss_forward", "Loss_derivative"}

\* C17: forward (dense and windowed), Activation forward and derivative and
\* Loss forward and derivative leave every weight and bias of every layer
\* unchanged, and two forward calls in a row on the same layer and input
\* return the same output
C17_FrameEffect ==
  /\ \A k \in DOMAIN events :
       events[k].op \in ReadOnlyOps => events[k].after = events[k].before
  /\ \A k \in DOMAIN events :
       (k > 1 /\ events[k].op = "forward" /\ events[k - 1].op = "forward"
          /\ events[k].l = events[k - 1].l
          /\ events[k].inputs = events[k - 1].inputs)
         => events[k].out = events[k - 1].out
  /\ (events # <<>>) => layers = events[Len(events)].after

\* forward has been called twice in a row on layer 1 with one input
C17_Witness ==
  /\ Len(events) = 2
  /\ events[1].op = "forward" /\ events[2].op = "forward"
  /\ events[1].l = 1 /\ events[2].l = 1
  /\ events[1].inputs = events[2].inputs
  /\ events[1].out = events[2].out
  /\ layers = events[1].before

\* an update between two forward calls is the only thing that changes a layer
C17_WitnessUpdate ==
  /\ Len(events) = 2
  /\ events[1].op = "update_weights" /\ events[2].op = "Loss_forward"
  /\ events[1].after # events[1].before
  /\ events[2].after = events[2].before

\* ---------------------------------------------------------------- C21
\* C21: when predictions and targets differ in length, or the number of loss
\* gradients differs from OUT, backward_pass_1d fails and every weight and
\* bias of every layer equals its value before the call
C21_FailedBackwardTouchesNothing ==
  (call.op = "backward_pass_1d"
     /\ (Len(call.predictions) # Len(call.targets)
           \/ Len(call.predictions) # shape.OUT)) =>
    /\ pc = "panicked"
    /\ layers = call.old
    /\ \A k \in DOMAIN events : events[k].e # "update"

\* two predictions and two targets were handed to layers with OUT = 1: the
\* call has failed on its assertion and both layers are as they were
C21_Witness ==
  /\ call.op = "backward_pass_1d" /\ call.kind = "MeanSquaredError"
  /\ shape.OUT = 1 /\ Len(layers) = 2
  /\ Len(call.predictions) = 2 /\ Len(call.targets) = 2
  /\ pc = "panicked" /\ layers = call.old

\* the lengths differ: the call has failed in Loss::derivative
C21_WitnessLengths ==
  /\ call.op = "backward_pass_1d"
  /\ Len(call.predictions) = shape.OUT /\ Len(call.targets) = shape.OUT - 1
  /\ pc = "panicked" /\ layers = call.old

\* ------------------------------------------------ the training loop of main
\* The model follows the loop body of main for the first sample of the first
\* epoch, statement by statement; the samples after it start from weights
\* whose sigmoid is not tabulated.

\* the hidden layer has 3 units over 3 inputs, the output layer 1 unit
HiddenUnits == 3

\* let lr = 0.01f64
TrainRate == F(1, 100)

\* Layer1D::<f64, 3, 3>::new([[0.5; 3]; 3], [0.1; 3])
hidden_layer_new == Layer1D(UniMat(HiddenUnits, HiddenUnits, F(1, 2)),
                            [i \in 1..HiddenUnits |-> F(1, 10)])

\* Layer1D::<f64, 1, 3>::new([[0.5, 0.5, 0.5]], [0.1])
output_layer_new == Layer1D(UniMat(1, HiddenUnits, F(1, 2)), <<F(1, 10)>>)

\* the rows [x0, x1, 1.0] of xdash: rows whose hidden pre-activation
\* 0.5 * (x0 + x1 + 1) + 0.1 is 0, where the sigmoid is tabulated
TrainInputs ==
  {<<I(x0), Sub(F(-6, 5), I(x0)), one>> : x0 \in {-3, -2, -1, 0, 1, 2}}

\* the targets of ydash: the first prediction 7/10 itself, and the two targets
\* that make the output error d_out 2/5 and -2/5
TrainTargets == {F(7, 10), F(-53, 210), F(347, 210)}

\* the locals of one iteration of the sample loop, before its statements ran
NoLocals ==
  [op |-> "train", epoch_loss |-> zero,
   input |-> <<>>, target |-> zero,
   hidden_out |-> <<>>, hidden_act |-> <<>>, pred_pre |-> zero, pred |-> zero,
   d_out |-> zero, output_weight_grads |-> <<>>, output_bias_grads |-> <<>>,
   w_ho |-> <<>>, hidden_weight_grads |-> <<>>, hidden_bias_grads |-> <<>>,
   output_before |-> output_layer_new]

\* layers = <<hidden_layer, output_layer>>
InitTrain ==
  /\ rep = "f64"
  /\ shape = [OUT |-> HiddenUnits, NIN |-> HiddenUnits]
  /\ layers = <<hidden_layer_new, output_layer_new>>
  /\ call = NoLocals
  /\ pc = "idle"
  /\ bw = NoBw
  /\ events = <<>>

\* main.rs 41-51: the next sample, the forward pass and the loss
TrainForward(input, target) ==
  /\ pc = "idle"
  /\ LET hidden_out == dense_linear(input, layers[1])
         hidden_act == Activation_forward(rep, "Sigmoid", hidden_out)
         final_out == dense_linear(hidden_act, layers[2])
         pred == Activation_forward(rep, "Sigmoid", final_out)[1]
         error == Sub(pred, target)
     IN  call' = [NoLocals EXCEPT
                    !.epoch_loss = Add(call.epoch_loss, Mul(error, error)),
                    !.input = input, !.target = target,
                    !.hidden_out = hidden_out, !.hidden_act = hidden_act,
                    !.pred_pre = final_out[1], !.pred = pred,
                    !.output_before = layers[2]]
  /\ pc' = "output_grads"
  /\ UNCHANGED <<rep, shape, layers, bw, events>>

\* main.rs 55-64: the output error and the gradients of the output layer
TrainOutputGrads ==
  /\ pc = "output_grads"
  /\ LET d_loss_dy == Mul(I(2), Sub(call.pred, call.target))
         dy_dz == Activation_derivative(rep, "Sigmoid", call.pred_pre)
         d_out == Mul(d_loss_dy, dy_dz)
     IN  call' = [call EXCEPT
                    !.d_out = d_out,
                    !.output_weight_grads =
                       <<[j \in 1..HiddenUnits |-> Mul(d_out, call.hidden_act[j])]>>,
                    !.output_bias_grads = <<d_out>>]
  /\ pc' = "update_output"
  /\ UNCHANGED <<rep, shape, layers, bw, events>>

\* main.rs 67: output_layer.update_weights(..)
TrainUpdateOutput ==
  /\ pc = "update_output"
  /\ layers' = [layers EXCEPT ![2] =
                  update_weights(@, call.output_weight_grads,
                                 call.output_bias_grads, TrainRate)]
  /\ call' = [call EXCEPT
                !.hidden_weight_grads = ZeroMat(HiddenUnits, HiddenUnits),
                !.hidden_bias_grads = ZeroVec(HiddenUnits)]
  /\ events' = Append(events, [e |-> "update", i |-> 2])
  /\ bw' = [NoBw EXCEPT !.pos = 1]
  /\ pc' = "hidden_grads"
  /\ UNCHANGED <<rep, shape>>

\* main.rs 72-81: iteration h of the loop over the hidden units; w_ho is
\* read from output_layer.weights as it is now
TrainHiddenGrad ==
  /\ pc = "hidden_grads"
  /\ LET h == bw.pos
         w_ho == layers[2].weights[1][h]
         d_hidden == Mul(Mul(call.d_out, w_ho),
                         Activation_derivative(rep, "Sigmoid", call.hidden_out[h]))
     IN  call' = [call EXCEPT
                    !.w_ho = Append(@, w_ho),
                    !.hidden_weight_grads[h] =
                       [k \in 1..HiddenUnits |-> Mul(d_hidden, call.input[k])],
                    !.hidden_bias_grads[h] = d_hidden]
  /\ events' = Append(events, [e |-> "read", i |-> 2])
  /\ bw' = [bw EXCEPT !.pos = @ + 1]
  /\ pc' = IF bw.pos = HiddenUnits THEN "update_hidden" ELSE "hidden_grads"
  /\ UNCHANGED <<rep, shape, layers>>

\* main.rs 82: hidden_layer.update_weights(..), the last statement of the
\* loop body
TrainUpdateHidden ==
  /\ pc = "update_hidden"
  /\ layers' = [layers EXCEPT ![1] =
                  update_weights(@, call.hidden_weight_grads,
                                 call.hidden_bias_grads, TrainRate)]
  /\ events' = Append(events, [e |-> "update", i |-> 1])
  /\ bw' = NoBw
  /\ pc' = "done"
  /\ UNCHANGED <<rep, shape, call>>

NextTrain ==
  \/ \E input \in TrainInputs, target \in TrainTargets : TrainForward(input, target)
  \/ TrainOutputGrads
  \/ TrainUpdateOutput
  \/ TrainHiddenGrad
  \/ TrainUpdateHidden

SpecTrain == InitTrain /\ [][NextTrain]_vars

\* ---------------------------------------------------------------- C22
\* C22: in the training step of main the error propagated to the hidden
\* layer goes through the weights the output layer had before its update in
\* that step: every weight w_ho the hidden gradients read is the pre-update one
C22_PreUpdateWeights ==
  call.op = "train" =>
    \A h \in DOMAIN call.w_ho : call.w_ho[h] = call.output_before.weights[1][h]

\* what main does: every w_ho is read after line 67 has updated the output
\* layer, so it is the updated weight
C22_PostUpdateWeights ==
  call.op = "train" =>
    \A h \in DOMAIN call.w_ho : call.w_ho[h] = layers[2].weights[1][h]

\* target -53/210: d_out = 2/5, the output weights go from 1/2 to 249/500 and
\* the hidden error is computed from 249/500
C22_UpdatedWeightRead ==
  /\ call.op = "train" /\ call.target = F(-53, 210)
  /\ call.d_out = F(2, 5)
  /\ call.output_before.weights[1][1] = F(1, 2)
  /\ call.w_ho = <<F(249, 500)>>
  /\ call.hidden_bias_grads[1] = F(249, 5000)

\* ---------------------------------------------------------------- C23
\* the sum of the squared differences of two integer vectors of one length
RECURSIVE SumSqInt(_, _, _)
SumSqInt(p, t, i) ==
  IF i > Len(p) THEN 0
  ELSE (p[i].s[1] - t[i].s[1]) * (p[i].s[1] - t[i].s[1]) + SumSqInt(p, t, i + 1)

\* C23: on an integer representation mean_squared_error of non-empty vectors
\* of one length is the sum of the squared differences divided by n, the
\* quotient truncated toward zero
C23_IntegerMse ==
  (rep = "i32" /\ call.op = "Loss_forward" /\ call.kind = "MeanSquaredError"
     /\ Len(call.predictions) = Len(call.targets) /\ Len(call.predictions) > 0) =>
    LET n == Len(call.predictions)
        sum == SumSqInt(call.predictions, call.targets, 1)
    IN  /\ call.out.k = "fin" /\ call.out.s[2] = 1
        /\ call.out.h = Q0 /\ call.out.e = Q0
        /\ call.out.s[1] * n <= sum /\ sum < (call.out.s[1] + 1) * n
        /\ call.out.s[1] >= 0

\* predictions [1, 1] and targets [1, 0]: (0 + 1) / 2 is 0
C23_Witness ==
  /\ rep = "i32" /\ call.op = "Loss_forward" /\ call.kind = "MeanSquaredError"
  /\ call.predictions = <<I(1), I(1)>> /\ call.targets = <<I(1), I(0)>>
  /\ call.out = I(0)

\* predictions [3, 0] and targets [0, 0]: 9 / 2 is 4
C23_WitnessTrunc ==
  /\ rep = "i32" /\ call.op = "Loss_forward" /\ call.kind = "MeanSquaredError"
  /\ call.predictions = <<I(3), I(0)>> /\ call.targets = <<I(0), I(0)>>
  /\ call.out = I(4)

\* ---------------------------------------------- sequences of updates
\* the integer layers a caller builds with linear
UpdLayers(OUT, NIN, n) ==
  [l \in 1..n |-> linear(RampVec(OUT * NIN, l - 1, 1, 1), OUT, NIN)]

\* the gradient pairs (weight_grads, bias_grads) of the update calls
UpdGrads(OUT, NIN) ==
  {<<UniMat(OUT, NIN, one), RampVec(OUT, 0, 1, 1)>>,
   <<RampMat(OUT, NIN, -2, 1, 1), ZeroVec(OUT)>>}

\* the learning rates of the update calls
UpdRates == {I(1), I(-2)}

\* the entry an update leaves in the log: the layer it was applied to (0 for
\* every layer, as backward_pass_1d does) and its arguments
UpdEntry(l, wg, bg, lr) == [l |-> l, wg |-> wg, bg |-> bg, lr |-> lr]

InitUpd ==
  /\ rep \in {"i32", "i64"}
  /\ shape \in [OUT : 1..MaxDim, NIN : 1..MaxDim]
  /\ layers \in {UpdLayers(shape.OUT, shape.NIN, n) : n \in 1..MaxLayers}
  /\ call = [op |-> "updates", old |-> layers]
  /\ pc = "idle"
  /\ bw = NoBw
  /\ events = <<>>

\* layers[l].update_weights(&wg, &bg, lr)
UpdUpdateWeights(l, wg, bg, lr) ==
  /\ pc = "idle" /\ Len(events) < MaxCalls
  /\ layers' = [layers EXCEPT ![l] = update_weights(@, wg, bg, lr)]
  /\ events' = Append(events, UpdEntry(l, wg, bg, lr))
  /\ UNCHANGED <<rep, shape, call, pc, bw>>

\* backward_pass_1d(&mut layers, Loss::MeanSquaredError, &predictions,
\* &targets, lr): every layer takes one update with the gradients it builds
UpdBackward(predictions, targets, lr) ==
  /\ pc = "idle" /\ Len(events) < MaxCalls
  /\ LET r == backward_pass_1d(rep, layers, "MeanSquaredError", predictions,
                               targets, lr, shape.OUT, shape.NIN)
         d == Loss_derivative(rep, "MeanSquaredError", predictions, targets)
     IN  /\ layers' = r.layers
         /\ pc' = IF r.ok THEN "idle" ELSE "panicked"
         /\ events' = IF r.ok
                      THEN Append(events,
                                  UpdEntry(0, weight_grads(d.v, shape.OUT, shape.NIN),
                                           bias_grads(d.v, shape.OUT), lr))
                      ELSE events
  /\ UNCHANGED <<rep, shape, call, bw>>

NextUpd ==
  \/ \E l \in DOMAIN layers, g \in UpdGrads(shape.OUT, shape.NIN), lr \in UpdRates :
       UpdUpdateWeights(l, g[1], g[2], lr)
  \/ \E m \in {shape.OUT, shape.OUT + 1}, lr \in UpdRates :
       UpdBackward(RampVec(m, 0, 1, 1), ZeroVec(m), lr)

SpecUpd == InitUpd /\ [][NextUpd]_vars

\* ---------------------------------------------------------------- C24
\* the sum over the log entries from k on that apply to layer l of
\* lr * weight_grads[i][j], in the integers
RECURSIVE SumWeightSteps(_, _, _, _)
SumWeightSteps(l, i, j, k) ==
  IF k > Len(events) THEN 0
  ELSE (IF events[k].l \in {0, l}
        THEN events[k].lr.s[1] * events[k].wg[i][j].s[1] ELSE 0)
       + SumWeightSteps(l, i, j, k + 1)

\* the same sum for bias i
RECURSIVE SumBiasSteps(_, _, _)
SumBiasSteps(l, i, k) ==
  IF k > Len(events) THEN 0
  ELSE (IF events[k].l \in {0, l}
        THEN events[k].lr.s[1] * events[k].bg[i].s[1] ELSE 0)
       + SumBiasSteps(l, i, k + 1)

\* the layers ls after the log entries k, k-1, .., 1: the log in reverse
RECURSIVE ReplayReversed(_, _)
ReplayReversed(ls, k) ==
  IF k = 0 THEN ls
  ELSE ReplayReversed(
         [l \in DOMAIN ls |->
            IF events[k].l \in {0, l}
            THEN update_weights(ls[l], events[k].wg, events[k].bg, events[k].lr)
            ELSE ls[l]],
         k - 1)

\* C24: in integer arithmetic, after any sequence of updates every weight is
\* its initial value minus the sum of lr * weight_grad over the updates of its
\* layer, and likewise every bias; so the updates applied in the reverse
\* order, and the backward driver visiting the layers in any order, leave
\* the same layers
C24_UpdatesAccumulate ==
  call.op = "updates" =>
    /\ \A l \in DOMAIN layers :
         /\ \A i \in 1..shape.OUT : \A j \in 1..shape.NIN :
              layers[l].weights[i][j] =
                I(call.old[l].weights[i][j].s[1] - SumWeightSteps(l, i, j, 1))
         /\ \A i \in 1..shape.OUT :
              layers[l].biases[i] =
                I(call.old[l].biases[i].s[1] - SumBiasSteps(l, i, 1))
    /\ ReplayReversed(call.old, Len(events)) = layers

\* two different updates of layer 1, one after the other
C24_Witness ==
  /\ call.op = "updates" /\ Len(events) = 2
  /\ events[1].l = 1 /\ events[2].l = 1
  /\ events[1].wg # events[2].wg /\ events[1].lr # events[2].lr
  /\ layers[1] # call.old[1]

\* an update of layer 2 followed by a backward pass over both layers
C24_WitnessBackward ==
  /\ call.op = "updates" /\ Len(layers) = 2 /\ Len(events) = 2
  /\ events[1].l = 2 /\ events[2].l = 0
  /\ layers[1] # call.old[1] /\ layers[2] # call.old[2]

\* ---------------------------------------------------------------- C25
\* the input cut to its first FILTER_SIZE entries or padded with zeros
Resized(inputs, FILTER_SIZE) ==
  [j \in 1..FILTER_SIZE |-> IF j <= Len(inputs) THEN inputs[j] ELSE zero]

\* dense_linear on the resized input and the dense layer with the filters as
\* weights and the same biases
LinearOnResized ==
  dense_linear(Resized(call.inputs, Len(call.layer.filters[1])),
               Layer1D(call.layer.filters, call.layer.biases))

\* C25 as stated: for every filter matrix, bias and input dense_conv2d equals
\* dense_linear on the resized input
C25_Original ==
  call.op = "dense_conv2d" => call.out = LinearOnResized

\* C25: dense_conv2d equals dense_linear on the resized input whenever the
\* filter entries at the padded positions (j >= IN) are finite; input entries
\* at positions >= FILTER_SIZE never influence the output
C25_ConvIsLinearOnResized ==
  call.op = "dense_conv2d" =>
    /\ (\A i \in DOMAIN call.layer.filters : \A j \in DOMAIN call.layer.filters[i] :
          j > Len(call.inputs) => IsFinite(call.layer.filters[i][j]))
         => call.out = LinearOnResized
    /\ call.out = dense_conv2d(SubSeq(call.inputs, 1,
                                      Min2(Len(call.inputs), Len(call.layer.filters[1]))),
                               call.layer)

\* filters of size 2 on an input of length 3 with distinct entries: the third
\* entry is cut off
C25_Witness ==
  /\ call.op = "dense_conv2d"
  /\ Len(call.inputs) = 3 /\ Len(call.layer.filters[1]) = 2
  /\ call.inputs[3] # call.inputs[1]
  /\ call.out = LinearOnResized

\* finite filters of size 3 on an input of length 1: two zeros are padded
C25_WitnessPadded ==
  /\ call.op = "dense_conv2d"
  /\ Len(call.inputs) = 1 /\ Len(call.layer.filters[1]) = 3
  /\ \A j \in 1..3 : IsFinite(call.layer.filters[1][j])
  /\ call.out = LinearOnResized

C26_WitnessZero ==
  /\ rep = "i32" /\ call.op = "Loss_derivative" /\ call.kind = "CrossEntropy"
  /\ call.predictions = <<I(0)>> /\ call.targets = <<I(0)>>
  /\ ~call.ok

====
